---- MODULE Spec2Model ----
(***************************************************************************)
(* A model of the Mango margin-lending program (program/src/state.rs and   *)
(* program/src/processor.rs): the interest index, the group and account    *)
(* ledgers, valuation, the user operations and full liquidation.           *)
(*                                                                         *)
(* Numbers.  The program computes in U64F64 (64 integer bits, 64 fraction  *)
(* bits).  The model keeps the same operations and the same rounding       *)
(* (multiplication, division and to_num truncate, from_num of a float      *)
(* rounds to nearest) on a fixed-point number with FracBits fraction bits, *)
(* held as the integer value * 2^FracBits.  Amounts are chosen so that no  *)
(* intermediate product leaves the range of the model's integers.          *)
(*                                                                         *)
(* Time.  The program's clock counts seconds and YEAR is 31536000; the     *)
(* model's clock counts ticks of which TicksPerYear make a year, so that   *)
(* the per-tick rate is representable with FracBits fraction bits.         *)
(* U64F64_MAX stands for U64F64::MAX, above every ratio the model reaches, *)
(* and U64_WRAP for 2^64, the modulus of a wrapping u64 subtraction, above *)
(* every timestamp of the model.                                           *)
(***************************************************************************)
EXTENDS Integers, Sequences, FiniteSets, TLC

\* ------------------------------------------------------------------ bounds
FracBits == 8
TicksPerYear == 4
MaxClock == 2
MaxOps == 2
MaxLendOps == 5
MaxRefreshes == 3

\* --------------------------------------------------------- program constants
NUM_TOKENS == 3
NUM_MARKETS == NUM_TOKENS - 1
U64F64_MAX == 2147483647
U64_WRAP == 8

Tokens == 0 .. (NUM_TOKENS - 1)
Markets == 0 .. (NUM_MARKETS - 1)

\* ------------------------------------------------------ fixed-point numbers
ONE == 2 ^ FracBits

from_num(n) == n * ONE

\* U64F64::from_num of the float num/den: round to nearest, ties to even
from_float(num, den) ==
    LET q == (num * ONE) \div den
        r == (num * ONE) % den
    IN  IF 2 * r > den \/ (2 * r = den /\ q % 2 = 1) THEN q + 1 ELSE q

fmul(a, b) == (a * b) \div ONE

fdiv(a, b) == (a * ONE) \div b

to_num(a) == a \div ONE

checked_ceil(a) == ((a + ONE - 1) \div ONE) * ONE

checked_floor(a) == (a \div ONE) * ONE

Min(a, b) == IF a <= b THEN a ELSE b

\* ------------------------------------------------------------- identities
Users == {"alice", "bob", "liqor"}
MarginAccounts == {"m1", "m2"}
DefaultKey == "default"
OpenOrdersKeys == {"oo1", "oo2"}
SignerKey == "signer"
AdminKey == "admin"

\* ------------------------------------------------------------- MangoGroup
MangoIndex(ts) == [last_update |-> ts, borrow |-> from_num(1), deposit |-> from_num(1)]

\* Processor::init_mango_group: the fields of the group the ledger reads
init_mango_group(curr_ts, maint, init, limits) ==
    [ indexes          |-> [i \in Tokens |-> MangoIndex(curr_ts)],
      total_deposits   |-> [i \in Tokens |-> 0],
      total_borrows    |-> [i \in Tokens |-> 0],
      maint_coll_ratio |-> maint,
      init_coll_ratio  |-> init,
      borrow_limits    |-> limits,
      admin            |-> AdminKey,
      signer_key       |-> SignerKey,
      mint_decimals    |-> [i \in Tokens |-> 0],
      oracle_decimals  |-> [i \in Markets |-> 0] ]

\* Processor::init_margin_account: a zeroed record owned by its creator
init_margin_account(owner) ==
    [ owner       |-> owner,
      deposits    |-> [i \in Tokens |-> 0],
      borrows     |-> [i \in Tokens |-> 0],
      open_orders |-> [i \in Markets |-> DefaultKey] ]

\* get_interest_rate with the slope above optimal_util taken over the whole
\* range of utilisation
get_interest_rate_with_slope_over_one(g, token_index) ==
    LET optimal_util    == from_float(7, 10)
        optimal_r       == fdiv(from_float(1, 10), from_num(TicksPerYear))
        max_r           == fdiv(from_num(1), from_num(TicksPerYear))
        index           == g.indexes[token_index]
        native_deposits == fmul(index.deposit, g.total_deposits[token_index])
        native_borrows  == fmul(index.borrow, g.total_borrows[token_index])
        utilization     == fdiv(native_borrows, native_deposits)
    IN  IF native_deposits <= native_borrows THEN max_r
        ELSE IF utilization > optimal_util
             THEN optimal_r + fmul(fdiv(max_r - optimal_r, from_num(1)),
                                   utilization - optimal_util)
             ELSE fmul(fdiv(optimal_r, optimal_util), utilization)

\* MangoGroup::get_interest_rate, per tick
get_interest_rate(g, token_index) ==
    LET optimal_util    == from_float(7, 10)
        optimal_r       == fdiv(from_float(1, 10), from_num(TicksPerYear))
        max_r           == fdiv(from_num(1), from_num(TicksPerYear))
        index           == g.indexes[token_index]
        native_deposits == fmul(index.deposit, g.total_deposits[token_index])
        native_borrows  == fmul(index.borrow, g.total_borrows[token_index])
        utilization     == fdiv(native_borrows, native_deposits)
    IN  IF native_deposits <= native_borrows THEN max_r
        ELSE IF utilization > optimal_util
             THEN optimal_r + fmul(fdiv(max_r - optimal_r, from_num(1) - optimal_util),
                                   utilization - optimal_util)
             ELSE fmul(fdiv(optimal_r, optimal_util), utilization)

\* update_index with each index multiplied by its interest and the index
\* itself not added back
update_index_without_add(g, i, curr_ts, wraps) ==
    LET index           == g.indexes[i]
        native_deposits == fmul(g.total_deposits[i], index.deposit)
        native_borrows  == fmul(g.total_borrows[i], index.borrow)
        utilization     == fdiv(native_borrows, native_deposits)
        elapsed         == IF curr_ts >= index.last_update
                           THEN curr_ts - index.last_update
                           ELSE curr_ts - index.last_update + U64_WRAP
        accrued(borrow_interest, deposit_interest) ==
            [last_update |-> curr_ts,
             borrow  |-> fmul(index.borrow, borrow_interest),
             deposit |-> fmul(index.deposit, deposit_interest)]
        with_interest(borrow_interest) ==
            accrued(borrow_interest, fmul(borrow_interest, utilization))
    IN  IF index.last_update = curr_ts \/ g.total_deposits[i] = 0
        THEN [ok |-> TRUE, index |-> index]
        ELSE IF ~(native_borrows <= native_deposits) \/ native_deposits = 0
        THEN [ok |-> FALSE, index |-> index]
        ELSE IF curr_ts < index.last_update /\ ~wraps
        THEN [ok |-> FALSE, index |-> index]
        ELSE [ok |-> TRUE,
              index |-> with_interest(fmul(get_interest_rate(g, i), from_num(elapsed)))]

\* update_index leaving last_update as it was
update_index_keeping_last_update(g, i, curr_ts, wraps) ==
    LET index           == g.indexes[i]
        native_deposits == fmul(g.total_deposits[i], index.deposit)
        native_borrows  == fmul(g.total_borrows[i], index.borrow)
        utilization     == fdiv(native_borrows, native_deposits)
        elapsed         == IF curr_ts >= index.last_update
                           THEN curr_ts - index.last_update
                           ELSE curr_ts - index.last_update + U64_WRAP
        accrued(borrow_interest, deposit_interest) ==
            [last_update |-> index.last_update,
             borrow  |-> fmul(index.borrow, borrow_interest) + index.borrow,
             deposit |-> fmul(index.deposit, deposit_interest) + index.deposit]
        with_interest(borrow_interest) ==
            accrued(borrow_interest, fmul(borrow_interest, utilization))
    IN  IF index.last_update = curr_ts \/ g.total_deposits[i] = 0
        THEN [ok |-> TRUE, index |-> index]
        ELSE IF ~(native_borrows <= native_deposits) \/ native_deposits = 0
        THEN [ok |-> FALSE, index |-> index]
        ELSE IF curr_ts < index.last_update /\ ~wraps
        THEN [ok |-> FALSE, index |-> index]
        ELSE [ok |-> TRUE,
              index |-> with_interest(fmul(get_interest_rate(g, i), from_num(elapsed)))]

\* update_index skipping a token only where last_update is curr_ts
update_index_without_zero_deposit_skip(g, i, curr_ts, wraps) ==
    LET index           == g.indexes[i]
        native_deposits == fmul(g.total_deposits[i], index.deposit)
        native_borrows  == fmul(g.total_borrows[i], index.borrow)
        utilization     == fdiv(native_borrows, native_deposits)
        elapsed         == IF curr_ts >= index.last_update
                           THEN curr_ts - index.last_update
                           ELSE curr_ts - index.last_update + U64_WRAP
        accrued(borrow_interest, deposit_interest) ==
            [last_update |-> curr_ts,
             borrow  |-> fmul(index.borrow, borrow_interest) + index.borrow,
             deposit |-> fmul(index.deposit, deposit_interest) + index.deposit]
        with_interest(borrow_interest) ==
            accrued(borrow_interest, fmul(borrow_interest, utilization))
    IN  IF index.last_update = curr_ts
        THEN [ok |-> TRUE, index |-> index]
        ELSE IF ~(native_borrows <= native_deposits) \/ native_deposits = 0
        THEN [ok |-> FALSE, index |-> index]
        ELSE IF curr_ts < index.last_update /\ ~wraps
        THEN [ok |-> FALSE, index |-> index]
        ELSE [ok |-> TRUE,
              index |-> with_interest(fmul(get_interest_rate(g, i), from_num(elapsed)))]

\* One iteration of the loop of MangoGroup::update_indexes.  The result is
\* the new index, with ok = FALSE where the iteration fails (assert, unwrap
\* or arithmetic panic).  curr_ts - last_update is computed in u64: where
\* curr_ts is behind last_update the subtraction underflows, which a build
\* with overflow checks turns into a panic and a build without lets wrap
\* around (wraps).
update_index(g, i, curr_ts, wraps) ==
    LET index           == g.indexes[i]
        native_deposits == fmul(g.total_deposits[i], index.deposit)
        native_borrows  == fmul(g.total_borrows[i], index.borrow)
        utilization     == fdiv(native_borrows, native_deposits)
        elapsed         == IF curr_ts >= index.last_update
                           THEN curr_ts - index.last_update
                           ELSE curr_ts - index.last_update + U64_WRAP
        accrued(borrow_interest, deposit_interest) ==
            [last_update |-> curr_ts,
             borrow  |-> fmul(index.borrow, borrow_interest) + index.borrow,
             deposit |-> fmul(index.deposit, deposit_interest) + index.deposit]
        with_interest(borrow_interest) ==
            accrued(borrow_interest, fmul(borrow_interest, utilization))
    IN  IF index.last_update = curr_ts \/ g.total_deposits[i] = 0
        THEN [ok |-> TRUE, index |-> index]
        ELSE IF ~(native_borrows <= native_deposits) \/ native_deposits = 0
        THEN [ok |-> FALSE, index |-> index]
        ELSE IF curr_ts < index.last_update /\ ~wraps
        THEN [ok |-> FALSE, index |-> index]
        ELSE [ok |-> TRUE,
              index |-> with_interest(fmul(get_interest_rate(g, i), from_num(elapsed)))]

\* MangoGroup::update_indexes in a build where an underflow wraps or panics:
\* the loop stops at the first iteration that fails, and a failed call
\* commits nothing
update_indexes_in(g, curr_ts, wraps) ==
    LET refreshed(r) == [ok |-> \A i \in Tokens : r[i].ok,
                         g  |-> [g EXCEPT !.indexes = [i \in Tokens |-> r[i].index]]]
    IN  refreshed([i \in Tokens |-> update_index(g, i, curr_ts, wraps)])

\* MangoGroup::update_indexes as the instructions call it, with the clock of
\* the cluster, which is never behind a last_update
update_indexes(g, curr_ts) == update_indexes_in(g, curr_ts, FALSE)

get_total_native_borrow(g, token_i) ==
    to_num(checked_ceil(fmul(g.total_borrows[token_i], g.indexes[token_i].borrow)))

get_total_native_deposit(g, token_i) ==
    to_num(checked_floor(fmul(g.total_deposits[token_i], g.indexes[token_i].deposit)))

has_valid_deposits_borrows(g, token_i) ==
    get_total_native_deposit(g, token_i) >= get_total_native_borrow(g, token_i)

\* ----------------------------------------------------------- MarginAccount
get_native_borrow(a, index, token_i) == to_num(fmul(a.borrows[token_i], index.borrow))

get_native_deposit(a, index, token_i) == to_num(fmul(a.deposits[token_i], index.deposit))

\* OpenOrders::account_flags: 0 of a record never initialised, and
\* AccountFlag::Initialized | AccountFlag::OpenOrders, each as one tag
NoFlags == "0"
ValidOpenOrdersFlags == "Initialized|OpenOrders"

\* The venue's record for an open-orders account that was never initialised
EmptyOpenOrders ==
    [ account_flags |-> NoFlags, owner |-> DefaultKey, market |-> 0,
      native_coin_total |-> 0, native_coin_free |-> 0,
      native_pc_total |-> 0, native_pc_free |-> 0 ]


\* state.rs check_open_orders: the default key passes, any other must be an
\* initialised open-orders record owned by owner
check_open_orders(oos, key, owner) ==
    key = DefaultKey
    \/ (oos[key].account_flags = ValidOpenOrdersFlags /\ oos[key].owner = owner)

RECURSIVE SumTo(_, _)
SumTo(f, n) == IF n < 0 THEN 0 ELSE f[n] + SumTo(f, n - 1)

\* MarginAccount::get_assets_val
get_assets_val(a, g, prices, oos, open_orders_accs) ==
    LET oo_val == [i \in Markets |->
                     IF open_orders_accs[i] = DefaultKey THEN 0
                     ELSE fmul(from_num(oos[open_orders_accs[i]].native_coin_total), prices[i])
                          + from_num(oos[open_orders_accs[i]].native_pc_total)]
        dep_val == [i \in Tokens |->
                     fmul(fmul(g.indexes[i].deposit, a.deposits[i]), prices[i])]
    IN  SumTo(oo_val, NUM_MARKETS - 1) + SumTo(dep_val, NUM_TOKENS - 1)

\* get_liabs_val taking what is owed of every token at the price 1
get_liabs_val_at_par(a, g, prices) ==
    LET val == [i \in Tokens |-> fmul(g.indexes[i].borrow, a.borrows[i])]
    IN  SumTo(val, NUM_TOKENS - 1)

\* MarginAccount::get_liabs_val
get_liabs_val(a, g, prices) ==
    LET val == [i \in Tokens |-> fmul(fmul(g.indexes[i].borrow, a.borrows[i]), prices[i])]
    IN  SumTo(val, NUM_TOKENS - 1)

\* get_collateral_ratio without the case of no liabilities: the ratio of an
\* account that owes nothing is taken as 0
get_collateral_ratio_no_zero_case(a, g, prices, oos, open_orders_accs) ==
    LET assets == get_assets_val(a, g, prices, oos, open_orders_accs)
        liabs  == get_liabs_val(a, g, prices)
    IN  IF liabs = 0 THEN 0 ELSE fdiv(assets, liabs)

\* MarginAccount::get_collateral_ratio
get_collateral_ratio(a, g, prices, oos, open_orders_accs) ==
    LET assets == get_assets_val(a, g, prices, oos, open_orders_accs)
        liabs  == get_liabs_val(a, g, prices)
    IN  IF liabs = 0 THEN U64F64_MAX ELSE fdiv(assets, liabs)

\* MarginAccount::get_total_liabs
get_total_liabs(a, g) == [i \in Tokens |-> get_native_borrow(a, g.indexes[i], i)]

\* processor.rs get_prices: the oracle's median scaled by the decimals
get_prices(g, oracle) ==
    [i \in Tokens |->
        IF i = NUM_MARKETS THEN from_num(1)
        ELSE fmul(fdiv(from_num(10 ^ (g.mint_decimals[NUM_MARKETS] - g.oracle_decimals[i])),
                       from_num(10 ^ g.mint_decimals[i])),
                  from_num(oracle[i]))]

\* ------------------------------------------------- paired ledger primitives
\* Each applies to the account first and to the group second, as the code
\* does; ok = FALSE where either checked subtraction underflows, and the
\* records are returned as the code leaves them at that point.
checked_sub_deposit(g, a, token_index, quantity) ==
    IF a.deposits[token_index] < quantity THEN [ok |-> FALSE, g |-> g, a |-> a]
    ELSE LET a2 == [a EXCEPT !.deposits[token_index] = @ - quantity]
         IN  IF g.total_deposits[token_index] < quantity
             THEN [ok |-> FALSE, g |-> g, a |-> a2]
             ELSE [ok |-> TRUE, a |-> a2,
                   g |-> [g EXCEPT !.total_deposits[token_index] = @ - quantity]]

\* checked_sub_borrow taking the shares from the account and leaving the
\* group's total as it is
checked_sub_borrow_account_only(g, a, token_index, quantity) ==
    IF a.borrows[token_index] < quantity THEN [ok |-> FALSE, g |-> g, a |-> a]
    ELSE [ok |-> TRUE, g |-> g, a |-> [a EXCEPT !.borrows[token_index] = @ - quantity]]

checked_sub_borrow(g, a, token_index, quantity) ==
    IF a.borrows[token_index] < quantity THEN [ok |-> FALSE, g |-> g, a |-> a]
    ELSE LET a2 == [a EXCEPT !.borrows[token_index] = @ - quantity]
         IN  IF g.total_borrows[token_index] < quantity
             THEN [ok |-> FALSE, g |-> g, a |-> a2]
             ELSE [ok |-> TRUE, a |-> a2,
                   g |-> [g EXCEPT !.total_borrows[token_index] = @ - quantity]]

checked_add_deposit(g, a, token_index, quantity) ==
    IF quantity > U64F64_MAX - a.deposits[token_index] THEN [ok |-> FALSE, g |-> g, a |-> a]
    ELSE LET a2 == [a EXCEPT !.deposits[token_index] = @ + quantity]
         IN  IF quantity > U64F64_MAX - g.total_deposits[token_index]
             THEN [ok |-> FALSE, g |-> g, a |-> a2]
             ELSE [ok |-> TRUE, a |-> a2,
                   g |-> [g EXCEPT !.total_deposits[token_index] = @ + quantity]]

checked_add_borrow(g, a, token_index, quantity) ==
    IF quantity > U64F64_MAX - a.borrows[token_index] THEN [ok |-> FALSE, g |-> g, a |-> a]
    ELSE LET a2 == [a EXCEPT !.borrows[token_index] = @ + quantity]
         IN  IF quantity > U64F64_MAX - g.total_borrows[token_index]
             THEN [ok |-> FALSE, g |-> g, a |-> a2]
             ELSE [ok |-> TRUE, a |-> a2,
                   g |-> [g EXCEPT !.total_borrows[token_index] = @ + quantity]]

\* settle_borrow_unchecked converting the quantity into borrow shares at the
\* deposit index
settle_borrow_unchecked_one_index(g, a, token_index, quantity) ==
    LET index          == g.indexes[token_index]
        native_borrow  == get_native_borrow(a, index, token_index)
        native_deposit == get_native_deposit(a, index, token_index)
        q              == Min(Min(quantity, native_borrow), native_deposit)
        borr_settle    == fdiv(from_num(q), index.deposit)
        dep_settle     == fdiv(from_num(q), index.deposit)
        settled(r1)    == IF ~r1.ok THEN r1
                          ELSE checked_sub_borrow(r1.g, r1.a, token_index, borr_settle)
    IN  IF index.borrow = 0 \/ index.deposit = 0 THEN [ok |-> FALSE, g |-> g, a |-> a]
        ELSE settled(checked_sub_deposit(g, a, token_index, dep_settle))

\* settle_borrow_unchecked taking the deposit shares and leaving the borrow
settle_borrow_unchecked_keeping_borrow(g, a, token_index, quantity) ==
    LET index          == g.indexes[token_index]
        native_borrow  == get_native_borrow(a, index, token_index)
        native_deposit == get_native_deposit(a, index, token_index)
        q              == Min(Min(quantity, native_borrow), native_deposit)
        borr_settle    == fdiv(from_num(q), index.borrow)
        dep_settle     == fdiv(from_num(q), index.deposit)
        settled(r1)    == IF ~r1.ok THEN r1
                          ELSE r1
    IN  IF index.borrow = 0 \/ index.deposit = 0 THEN [ok |-> FALSE, g |-> g, a |-> a]
        ELSE settled(checked_sub_deposit(g, a, token_index, dep_settle))

\* processor.rs settle_borrow_unchecked
settle_borrow_unchecked(g, a, token_index, quantity) ==
    LET index          == g.indexes[token_index]
        native_borrow  == get_native_borrow(a, index, token_index)
        native_deposit == get_native_deposit(a, index, token_index)
        q              == Min(Min(quantity, native_borrow), native_deposit)
        borr_settle    == fdiv(from_num(q), index.borrow)
        dep_settle     == fdiv(from_num(q), index.deposit)
        settled(r1)    == IF ~r1.ok THEN r1
                          ELSE checked_sub_borrow(r1.g, r1.a, token_index, borr_settle)
    IN  IF index.borrow = 0 \/ index.deposit = 0 THEN [ok |-> FALSE, g |-> g, a |-> a]
        ELSE settled(checked_sub_deposit(g, a, token_index, dep_settle))

\* processor.rs settle_borrow_full_unchecked
settle_borrow_full_unchecked(g, a, token_index) ==
    LET index          == g.indexes[token_index]
        native_borrow  == get_native_borrow(a, index, token_index)
        native_deposit == get_native_deposit(a, index, token_index)
        q              == Min(native_borrow, native_deposit)
        borr_settle    == fdiv(from_num(q), index.borrow)
        dep_settle     == fdiv(from_num(q), index.deposit)
        settled(r1)    == IF ~r1.ok THEN r1
                          ELSE checked_sub_borrow(r1.g, r1.a, token_index, borr_settle)
    IN  IF index.borrow = 0 \/ index.deposit = 0 THEN [ok |-> FALSE, g |-> g, a |-> a]
        ELSE settled(checked_sub_deposit(g, a, token_index, dep_settle))

\* socialize_loss charging the loss to the borrow index as well
socialize_loss_on_both_indexes(g, a, token_index, reduce_quantity_native) ==
    LET quantity        == fdiv(reduce_quantity_native, g.indexes[token_index].borrow)
        r1              == checked_sub_borrow(g, a, token_index, quantity)
        total_deposits  == from_num(get_total_native_deposit(r1.g, token_index))
        percentage_loss == fdiv(reduce_quantity_native, total_deposits)
        deposit         == r1.g.indexes[token_index].deposit
        loss            == fmul(percentage_loss, deposit)
        borrow          == r1.g.indexes[token_index].borrow
    IN  IF g.indexes[token_index].borrow = 0 THEN [ok |-> FALSE, g |-> g, a |-> a]
        ELSE IF ~r1.ok THEN r1
        ELSE IF total_deposits = 0 \/ loss > deposit THEN [ok |-> FALSE, g |-> r1.g, a |-> r1.a]
        ELSE [ok |-> TRUE, a |-> r1.a,
              g |-> [r1.g EXCEPT !.indexes[token_index].deposit = deposit - loss,
                                 !.indexes[token_index].borrow =
                                     borrow - fmul(percentage_loss, borrow)]]

\* socialize_loss taking the loss as a fraction of what of the total native
\* deposit is not lent
socialize_loss_over_unlent(g, a, token_index, reduce_quantity_native) ==
    LET quantity        == fdiv(reduce_quantity_native, g.indexes[token_index].borrow)
        r1              == checked_sub_borrow(g, a, token_index, quantity)
        total_deposits  == from_num(get_total_native_deposit(r1.g, token_index)
                                        - get_total_native_borrow(r1.g, token_index))
        percentage_loss == fdiv(reduce_quantity_native, total_deposits)
        deposit         == r1.g.indexes[token_index].deposit
        loss            == fmul(percentage_loss, deposit)
    IN  IF g.indexes[token_index].borrow = 0 THEN [ok |-> FALSE, g |-> g, a |-> a]
        ELSE IF ~r1.ok THEN r1
        ELSE IF total_deposits = 0 \/ loss > deposit THEN [ok |-> FALSE, g |-> r1.g, a |-> r1.a]
        ELSE [ok |-> TRUE, a |-> r1.a,
              g |-> [r1.g EXCEPT !.indexes[token_index].deposit = deposit - loss]]

\* processor.rs socialize_loss
socialize_loss(g, a, token_index, reduce_quantity_native) ==
    LET quantity        == fdiv(reduce_quantity_native, g.indexes[token_index].borrow)
        r1              == checked_sub_borrow(g, a, token_index, quantity)
        total_deposits  == from_num(get_total_native_deposit(r1.g, token_index))
        percentage_loss == fdiv(reduce_quantity_native, total_deposits)
        deposit         == r1.g.indexes[token_index].deposit
        loss            == fmul(percentage_loss, deposit)
    IN  IF g.indexes[token_index].borrow = 0 THEN [ok |-> FALSE, g |-> g, a |-> a]
        ELSE IF ~r1.ok THEN r1
        ELSE IF total_deposits = 0 \/ loss > deposit THEN [ok |-> FALSE, g |-> r1.g, a |-> r1.a]
        ELSE [ok |-> TRUE, a |-> r1.a,
              g |-> [r1.g EXCEPT !.indexes[token_index].deposit = deposit - loss]]

\* --------------------------------------------------------------- operations
\* An operation's result: ok, the assertion that rejected it (err), and the
\* group and account as the operation leaves them.  The host commits g and a
\* only when ok.
Fail(err, g, a) == [ok |-> FALSE, err |-> err, g |-> g, a |-> a]

Done(g, a) == [ok |-> TRUE, err |-> "none", g |-> g, a |-> a]

\* The loop over markets that compares the supplied open-orders accounts
\* with the account's stored ones (withdraw, borrow, liquidate)
open_orders_match(a, oos, open_orders_accs, owner) ==
    \A i \in Markets :
        /\ open_orders_accs[i] = a.open_orders[i]
        /\ check_open_orders(oos, open_orders_accs[i], owner)

\* deposit crediting the quantity itself as shares, whatever the deposit
\* index
deposit_at_par(g, a, owner_acc, token_index, quantity, clock) ==
    LET credited(u) ==
            IF ~u.ok THEN Fail("update_indexes", u.g, a)
            \* the token program moves nothing on an authority that did not sign
            ELSE IF ~owner_acc.is_signer THEN Fail("transfer", u.g, a)
            ELSE IF u.g.indexes[token_index].deposit = 0 THEN Fail("arith", u.g, a)
            ELSE LET r == checked_add_deposit(u.g, a, token_index,
                              from_num(quantity))
                 IN  IF ~r.ok THEN Fail("arith", r.g, r.a) ELSE Done(r.g, r.a)
    IN  credited(update_indexes(g, clock))

\* deposit converting the quantity at the deposit index it found on entry
deposit_at_stale_index(g, a, owner_acc, token_index, quantity, clock) ==
    LET credited(u) ==
            IF ~u.ok THEN Fail("update_indexes", u.g, a)
            \* the token program moves nothing on an authority that did not sign
            ELSE IF ~owner_acc.is_signer THEN Fail("transfer", u.g, a)
            ELSE IF u.g.indexes[token_index].deposit = 0 THEN Fail("arith", u.g, a)
            ELSE LET r == checked_add_deposit(u.g, a, token_index,
                              fdiv(from_num(quantity), g.indexes[token_index].deposit))
                 IN  IF ~r.ok THEN Fail("arith", r.g, r.a) ELSE Done(r.g, r.a)
    IN  credited(update_indexes(g, clock))

\* Processor::deposit
deposit(g, a, owner_acc, token_index, quantity, clock) ==
    LET credited(u) ==
            IF ~u.ok THEN Fail("update_indexes", u.g, a)
            \* the token program moves nothing on an authority that did not sign
            ELSE IF ~owner_acc.is_signer THEN Fail("transfer", u.g, a)
            ELSE IF u.g.indexes[token_index].deposit = 0 THEN Fail("arith", u.g, a)
            ELSE LET r == checked_add_deposit(u.g, a, token_index,
                              fdiv(from_num(quantity), u.g.indexes[token_index].deposit))
                 IN  IF ~r.ok THEN Fail("arith", r.g, r.a) ELSE Done(r.g, r.a)
    IN  credited(update_indexes(g, clock))

\* withdraw without the assertion has_valid_deposits_borrows
withdraw_no_solvency_check(g, a, owner_acc, open_orders_accs, token_index, quantity, clock, oracle, oos) ==
    LET checked(u, r, coll_ratio) ==
            LET index     == u.g.indexes[token_index]
                available == to_num(fmul(a.deposits[token_index], index.deposit))
            IN  IF ~u.ok THEN Fail("update_indexes", u.g, a)
                ELSE IF ~owner_acc.is_signer \/ a.owner # owner_acc.key
                     THEN Fail("owner", u.g, a)
                ELSE IF ~open_orders_match(a, oos, open_orders_accs, g.signer_key)
                     THEN Fail("open_orders", u.g, a)
                ELSE IF ~(available >= quantity) THEN Fail("available", u.g, a)
                ELSE IF index.deposit = 0 THEN Fail("arith", u.g, a)
                ELSE IF ~r.ok THEN Fail("arith", r.g, r.a)
                ELSE IF ~(coll_ratio >= r.g.init_coll_ratio) THEN Fail("coll_ratio", r.g, r.a)
                ELSE Done(r.g, r.a)
        \* the ratio after the deposit shares were taken
        debited(u, r) ==
            checked(u, r, get_collateral_ratio(r.a, r.g, get_prices(u.g, oracle), oos,
                                               open_orders_accs))
        \* the shares taken at the refreshed deposit index
        refreshed(u) ==
            debited(u, checked_sub_deposit(u.g, a, token_index,
                           fdiv(from_num(quantity), u.g.indexes[token_index].deposit)))
    IN  refreshed(update_indexes(g, clock))

\* withdraw that borrows the quantity where the deposit does not cover it,
\* instead of asserting that it does
withdraw_borrowing_shortfall(g, a, owner_acc, open_orders_accs, token_index, quantity, clock, oracle, oos) ==
    LET checked(u, r, coll_ratio) ==
            LET index     == u.g.indexes[token_index]
            IN  IF ~u.ok THEN Fail("update_indexes", u.g, a)
                ELSE IF ~owner_acc.is_signer \/ a.owner # owner_acc.key
                     THEN Fail("owner", u.g, a)
                ELSE IF ~open_orders_match(a, oos, open_orders_accs, g.signer_key)
                     THEN Fail("open_orders", u.g, a)
                ELSE IF index.deposit = 0 THEN Fail("arith", u.g, a)
                ELSE IF ~r.ok THEN Fail("arith", r.g, r.a)
                ELSE IF ~(coll_ratio >= r.g.init_coll_ratio) THEN Fail("coll_ratio", r.g, r.a)
                ELSE IF ~has_valid_deposits_borrows(r.g, token_index)
                     THEN Fail("deposits_borrows", r.g, r.a)
                ELSE Done(r.g, r.a)
        \* the ratio after the deposit shares were taken
        debited(u, r) ==
            checked(u, r, get_collateral_ratio(r.a, r.g, get_prices(u.g, oracle), oos,
                                               open_orders_accs))
        \* the shares taken at the refreshed deposit index
        refreshed(u) ==
            debited(u, IF to_num(fmul(a.deposits[token_index],
                                      u.g.indexes[token_index].deposit)) >= quantity
                       THEN checked_sub_deposit(u.g, a, token_index,
                                fdiv(from_num(quantity), u.g.indexes[token_index].deposit))
                       ELSE checked_add_borrow(u.g, a, token_index,
                                fdiv(from_num(quantity), u.g.indexes[token_index].borrow)))
    IN  refreshed(update_indexes(g, clock))

\* Processor::withdraw
withdraw(g, a, owner_acc, open_orders_accs, token_index, quantity, clock, oracle, oos) ==
    LET checked(u, r, coll_ratio) ==
            LET index     == u.g.indexes[token_index]
                available == to_num(fmul(a.deposits[token_index], index.deposit))
            IN  IF ~u.ok THEN Fail("update_indexes", u.g, a)
                ELSE IF ~owner_acc.is_signer \/ a.owner # owner_acc.key
                     THEN Fail("owner", u.g, a)
                ELSE IF ~open_orders_match(a, oos, open_orders_accs, g.signer_key)
                     THEN Fail("open_orders", u.g, a)
                ELSE IF ~(available >= quantity) THEN Fail("available", u.g, a)
                ELSE IF index.deposit = 0 THEN Fail("arith", u.g, a)
                ELSE IF ~r.ok THEN Fail("arith", r.g, r.a)
                ELSE IF ~(coll_ratio >= r.g.init_coll_ratio) THEN Fail("coll_ratio", r.g, r.a)
                ELSE IF ~has_valid_deposits_borrows(r.g, token_index)
                     THEN Fail("deposits_borrows", r.g, r.a)
                ELSE Done(r.g, r.a)
        \* the ratio after the deposit shares were taken
        debited(u, r) ==
            checked(u, r, get_collateral_ratio(r.a, r.g, get_prices(u.g, oracle), oos,
                                               open_orders_accs))
        \* the shares taken at the refreshed deposit index
        refreshed(u) ==
            debited(u, checked_sub_deposit(u.g, a, token_index,
                           fdiv(from_num(quantity), u.g.indexes[token_index].deposit)))
    IN  refreshed(update_indexes(g, clock))

\* borrow without the assertion that the ratio is at least init_coll_ratio
borrow_no_ratio_gate(g, a, owner_acc, open_orders_accs, token_index, quantity, clock, oracle, oos) ==
    LET checked(u, r2, coll_ratio) ==
            LET index == u.g.indexes[token_index]
            IN  IF ~owner_acc.is_signer \/ a.owner # owner_acc.key THEN Fail("owner", g, a)
                ELSE IF ~open_orders_match(a, oos, open_orders_accs, g.signer_key)
                     THEN Fail("open_orders", g, a)
                ELSE IF ~u.ok THEN Fail("update_indexes", u.g, a)
                ELSE IF index.borrow = 0 \/ index.deposit = 0 THEN Fail("arith", u.g, a)
                ELSE IF ~r2.ok THEN Fail("arith", r2.g, r2.a)
                ELSE IF ~has_valid_deposits_borrows(r2.g, token_index)
                     THEN Fail("deposits_borrows", r2.g, r2.a)
                ELSE IF ~(get_native_borrow(r2.a, index, token_index)
                              <= r2.g.borrow_limits[token_index])
                     THEN Fail("borrow_limit", r2.g, r2.a)
                ELSE Done(r2.g, r2.a)
        \* the ratio after both entries
        entered(u, r2) ==
            checked(u, r2, get_collateral_ratio(r2.a, r2.g, get_prices(r2.g, oracle), oos,
                                                open_orders_accs))
        \* the borrow entry, after the deposit entry r1
        credited(u, r1) ==
            entered(u, IF ~r1.ok THEN r1
                       ELSE checked_add_borrow(r1.g, r1.a, token_index,
                                fdiv(from_num(quantity), u.g.indexes[token_index].borrow)))
        \* the deposit entry, at the refreshed indexes
        refreshed(u) ==
            credited(u, checked_add_deposit(u.g, a, token_index,
                            fdiv(from_num(quantity), u.g.indexes[token_index].deposit)))
    IN  refreshed(update_indexes(g, clock))

\* borrow without the assertion that the native borrow is within the
\* token's borrow limit
borrow_no_limit_check(g, a, owner_acc, open_orders_accs, token_index, quantity, clock, oracle, oos) ==
    LET checked(u, r2, coll_ratio) ==
            LET index == u.g.indexes[token_index]
            IN  IF ~owner_acc.is_signer \/ a.owner # owner_acc.key THEN Fail("owner", g, a)
                ELSE IF ~open_orders_match(a, oos, open_orders_accs, g.signer_key)
                     THEN Fail("open_orders", g, a)
                ELSE IF ~u.ok THEN Fail("update_indexes", u.g, a)
                ELSE IF index.borrow = 0 \/ index.deposit = 0 THEN Fail("arith", u.g, a)
                ELSE IF ~r2.ok THEN Fail("arith", r2.g, r2.a)
                ELSE IF ~(coll_ratio >= r2.g.init_coll_ratio)
                     THEN Fail("coll_ratio", r2.g, r2.a)
                ELSE IF ~has_valid_deposits_borrows(r2.g, token_index)
                     THEN Fail("deposits_borrows", r2.g, r2.a)
                ELSE Done(r2.g, r2.a)
        \* the ratio after both entries
        entered(u, r2) ==
            checked(u, r2, get_collateral_ratio(r2.a, r2.g, get_prices(r2.g, oracle), oos,
                                                open_orders_accs))
        \* the borrow entry, after the deposit entry r1
        credited(u, r1) ==
            entered(u, IF ~r1.ok THEN r1
                       ELSE checked_add_borrow(r1.g, r1.a, token_index,
                                fdiv(from_num(quantity), u.g.indexes[token_index].borrow)))
        \* the deposit entry, at the refreshed indexes
        refreshed(u) ==
            credited(u, checked_add_deposit(u.g, a, token_index,
                            fdiv(from_num(quantity), u.g.indexes[token_index].deposit)))
    IN  refreshed(update_indexes(g, clock))

\* borrow converting the deposit entry at the borrow index
borrow_credited_at_borrow_index(g, a, owner_acc, open_orders_accs, token_index, quantity, clock, oracle, oos) ==
    LET checked(u, r2, coll_ratio) ==
            LET index == u.g.indexes[token_index]
            IN  IF ~owner_acc.is_signer \/ a.owner # owner_acc.key THEN Fail("owner", g, a)
                ELSE IF ~open_orders_match(a, oos, open_orders_accs, g.signer_key)
                     THEN Fail("open_orders", g, a)
                ELSE IF ~u.ok THEN Fail("update_indexes", u.g, a)
                ELSE IF index.borrow = 0 \/ index.deposit = 0 THEN Fail("arith", u.g, a)
                ELSE IF ~r2.ok THEN Fail("arith", r2.g, r2.a)
                ELSE IF ~(coll_ratio >= r2.g.init_coll_ratio)
                     THEN Fail("coll_ratio", r2.g, r2.a)
                ELSE IF ~has_valid_deposits_borrows(r2.g, token_index)
                     THEN Fail("deposits_borrows", r2.g, r2.a)
                ELSE IF ~(get_native_borrow(r2.a, index, token_index)
                              <= r2.g.borrow_limits[token_index])
                     THEN Fail("borrow_limit", r2.g, r2.a)
                ELSE Done(r2.g, r2.a)
        \* the ratio after both entries
        entered(u, r2) ==
            checked(u, r2, get_collateral_ratio(r2.a, r2.g, get_prices(r2.g, oracle), oos,
                                                open_orders_accs))
        \* the borrow entry, after the deposit entry r1
        credited(u, r1) ==
            entered(u, IF ~r1.ok THEN r1
                       ELSE checked_add_borrow(r1.g, r1.a, token_index,
                                fdiv(from_num(quantity), u.g.indexes[token_index].borrow)))
        \* the deposit entry, at the refreshed indexes
        refreshed(u) ==
            credited(u, checked_add_deposit(u.g, a, token_index,
                            fdiv(from_num(quantity), u.g.indexes[token_index].borrow)))
    IN  refreshed(update_indexes(g, clock))

\* Processor::borrow
borrow(g, a, owner_acc, open_orders_accs, token_index, quantity, clock, oracle, oos) ==
    LET checked(u, r2, coll_ratio) ==
            LET index == u.g.indexes[token_index]
            IN  IF ~owner_acc.is_signer \/ a.owner # owner_acc.key THEN Fail("owner", g, a)
                ELSE IF ~open_orders_match(a, oos, open_orders_accs, g.signer_key)
                     THEN Fail("open_orders", g, a)
                ELSE IF ~u.ok THEN Fail("update_indexes", u.g, a)
                ELSE IF index.borrow = 0 \/ index.deposit = 0 THEN Fail("arith", u.g, a)
                ELSE IF ~r2.ok THEN Fail("arith", r2.g, r2.a)
                ELSE IF ~(coll_ratio >= r2.g.init_coll_ratio)
                     THEN Fail("coll_ratio", r2.g, r2.a)
                ELSE IF ~has_valid_deposits_borrows(r2.g, token_index)
                     THEN Fail("deposits_borrows", r2.g, r2.a)
                ELSE IF ~(get_native_borrow(r2.a, index, token_index)
                              <= r2.g.borrow_limits[token_index])
                     THEN Fail("borrow_limit", r2.g, r2.a)
                ELSE Done(r2.g, r2.a)
        \* the ratio after both entries
        entered(u, r2) ==
            checked(u, r2, get_collateral_ratio(r2.a, r2.g, get_prices(r2.g, oracle), oos,
                                                open_orders_accs))
        \* the borrow entry, after the deposit entry r1
        credited(u, r1) ==
            entered(u, IF ~r1.ok THEN r1
                       ELSE checked_add_borrow(r1.g, r1.a, token_index,
                                fdiv(from_num(quantity), u.g.indexes[token_index].borrow)))
        \* the deposit entry, at the refreshed indexes
        refreshed(u) ==
            credited(u, checked_add_deposit(u.g, a, token_index,
                            fdiv(from_num(quantity), u.g.indexes[token_index].deposit)))
    IN  refreshed(update_indexes(g, clock))

\* Processor::settle_borrow
settle_borrow(g, a, owner_acc, token_index, quantity, clock) ==
    LET settled(u, r) ==
            IF ~u.ok THEN Fail("update_indexes", u.g, a)
            ELSE IF ~owner_acc.is_signer \/ a.owner # owner_acc.key THEN Fail("owner", u.g, a)
            ELSE IF ~r.ok THEN Fail("arith", r.g, r.a)
            ELSE Done(r.g, r.a)
        refreshed(u) == settled(u, settle_borrow_unchecked(u.g, a, token_index, quantity))
    IN  refreshed(update_indexes(g, clock))

\* Processor::change_borrow_limit
change_borrow_limit(g, admin_acc, token_index, borrow_limit) ==
    IF admin_acc.key # g.admin \/ ~admin_acc.is_signer THEN [ok |-> FALSE, err |-> "admin", g |-> g]
    ELSE [ok |-> TRUE, err |-> "none", g |-> [g EXCEPT !.borrow_limits[token_index] = borrow_limit]]

\* Processor::liquidate, the loop that settles every token's borrow against
\* the account's own deposit, from token i on
RECURSIVE liquidate_settle(_, _, _)
liquidate_settle(g, a, i) ==
    IF i >= NUM_TOKENS THEN [ok |-> TRUE, g |-> g, a |-> a]
    ELSE LET rest(r) == IF ~r.ok THEN r ELSE liquidate_settle(r.g, r.a, i + 1)
         IN  rest(settle_borrow_unchecked(g, a, i, get_native_borrow(a, g.indexes[i], i)))

\* Processor::liquidate, the loop that socializes each token's share of
\* reduction_val, from token i on
RECURSIVE liquidate_socialize(_, _, _, _, _, _)
liquidate_socialize(g, a, liabs, liabs_val, reduction_val, i) ==
    IF i >= NUM_TOKENS THEN [ok |-> TRUE, g |-> g, a |-> a]
    ELSE LET proportion   == fdiv(from_num(liabs[i]), liabs_val)
             token_reduce == fmul(proportion, reduction_val)
             rest(r) == IF ~r.ok THEN r
                        ELSE liquidate_socialize(r.g, r.a, liabs, liabs_val, reduction_val, i + 1)
         IN  rest(socialize_loss(g, a, i, token_reduce))

\* Processor::liquidate, the branch taken when the ratio after the settle
\* loop is below 1
liquidate_insolvent(g, a, prices, oos, open_orders_accs) ==
    LET liabs         == get_total_liabs(a, g)
        liabs_val     == get_liabs_val(a, g, prices)
        assets_val    == get_assets_val(a, g, prices, oos, open_orders_accs)
        reduction_val == liabs_val - fdiv(assets_val, from_float(101, 100))
    IN  IF fdiv(assets_val, from_float(101, 100)) > liabs_val THEN [ok |-> FALSE, g |-> g, a |-> a]
        ELSE liquidate_socialize(g, a, liabs, liabs_val, reduction_val, 0)

\* Processor::liquidate, the loop that pulls the liquidator's deposits, from
\* token i on
RECURSIVE liquidate_deposits(_, _, _, _)
liquidate_deposits(g, a, deposit_quantities, i) ==
    IF i >= NUM_TOKENS THEN [ok |-> TRUE, g |-> g, a |-> a]
    ELSE IF deposit_quantities[i] = 0 THEN liquidate_deposits(g, a, deposit_quantities, i + 1)
    ELSE IF g.indexes[i].deposit = 0 THEN [ok |-> FALSE, g |-> g, a |-> a]
    ELSE LET rest(r) == IF ~r.ok THEN r
                        ELSE liquidate_deposits(r.g, r.a, deposit_quantities, i + 1)
         IN  rest(checked_add_deposit(g, a, i,
                      fdiv(from_num(deposit_quantities[i]), g.indexes[i].deposit)))

\* liquidate without the assertion that the ratio is below maint_coll_ratio
liquidate_no_gate(g, a, liqor_acc, open_orders_accs, deposit_quantities, clock, oracle, oos) ==
    LET checked(u, coll_ratio, s, coll_ratio2, l, d, coll_ratio3) ==
            IF ~liqor_acc.is_signer THEN Fail("signer", g, a)
            ELSE IF ~u.ok THEN Fail("update_indexes", u.g, a)
            ELSE IF ~open_orders_match(a, oos, open_orders_accs, g.signer_key)
                 THEN Fail("open_orders", u.g, a)
            ELSE IF ~s.ok THEN Fail("arith", s.g, s.a)
            ELSE IF coll_ratio2 >= s.g.maint_coll_ratio THEN Done(s.g, s.a)
            ELSE IF ~l.ok THEN Fail("socialize", l.g, l.a)
            ELSE IF ~d.ok THEN Fail("arith", d.g, d.a)
            ELSE IF ~(coll_ratio3 >= d.g.init_coll_ratio) THEN Fail("coll_ratio", d.g, d.a)
            ELSE Done(d.g, [d.a EXCEPT !.owner = liqor_acc.key])
        \* the ratio after the liquidator's deposits d
        deposited(u, coll_ratio, s, coll_ratio2, l, d) ==
            checked(u, coll_ratio, s, coll_ratio2, l, d,
                    get_collateral_ratio(d.a, d.g, get_prices(u.g, oracle), oos,
                                         open_orders_accs))
        \* the liquidator's deposits, after the socialization l
        socialized(u, coll_ratio, s, coll_ratio2, l) ==
            deposited(u, coll_ratio, s, coll_ratio2, l,
                      liquidate_deposits(l.g, l.a, deposit_quantities, 0))
        \* the socialization, where the ratio after the settle loop is below 1
        rated(u, coll_ratio, s, coll_ratio2) ==
            socialized(u, coll_ratio, s, coll_ratio2,
                       IF coll_ratio2 < from_num(1)
                       THEN liquidate_insolvent(s.g, s.a, get_prices(u.g, oracle), oos,
                                                open_orders_accs)
                       ELSE s)
        \* the ratio after the settle loop s
        settled(u, coll_ratio, s) ==
            rated(u, coll_ratio, s,
                  get_collateral_ratio(s.a, s.g, get_prices(u.g, oracle), oos,
                                       open_orders_accs))
        \* the ratio on entry, and the settle loop
        refreshed(u) ==
            settled(u,
                    get_collateral_ratio(a, u.g, get_prices(u.g, oracle), oos,
                                         open_orders_accs),
                    liquidate_settle(u.g, a, 0))
    IN  refreshed(update_indexes(g, clock))

\* liquidate without the assertion that the liquidator's deposits brought the
\* ratio to init_coll_ratio
liquidate_no_final_check(g, a, liqor_acc, open_orders_accs, deposit_quantities, clock, oracle, oos) ==
    LET checked(u, coll_ratio, s, coll_ratio2, l, d, coll_ratio3) ==
            IF ~liqor_acc.is_signer THEN Fail("signer", g, a)
            ELSE IF ~u.ok THEN Fail("update_indexes", u.g, a)
            ELSE IF ~open_orders_match(a, oos, open_orders_accs, g.signer_key)
                 THEN Fail("open_orders", u.g, a)
            ELSE IF ~(coll_ratio < u.g.maint_coll_ratio) THEN Fail("maint", u.g, a)
            ELSE IF ~s.ok THEN Fail("arith", s.g, s.a)
            ELSE IF coll_ratio2 >= s.g.maint_coll_ratio THEN Done(s.g, s.a)
            ELSE IF ~l.ok THEN Fail("socialize", l.g, l.a)
            ELSE IF ~d.ok THEN Fail("arith", d.g, d.a)
            ELSE Done(d.g, [d.a EXCEPT !.owner = liqor_acc.key])
        \* the ratio after the liquidator's deposits d
        deposited(u, coll_ratio, s, coll_ratio2, l, d) ==
            checked(u, coll_ratio, s, coll_ratio2, l, d,
                    get_collateral_ratio(d.a, d.g, get_prices(u.g, oracle), oos,
                                         open_orders_accs))
        \* the liquidator's deposits, after the socialization l
        socialized(u, coll_ratio, s, coll_ratio2, l) ==
            deposited(u, coll_ratio, s, coll_ratio2, l,
                      liquidate_deposits(l.g, l.a, deposit_quantities, 0))
        \* the socialization, where the ratio after the settle loop is below 1
        rated(u, coll_ratio, s, coll_ratio2) ==
            socialized(u, coll_ratio, s, coll_ratio2,
                       IF coll_ratio2 < from_num(1)
                       THEN liquidate_insolvent(s.g, s.a, get_prices(u.g, oracle), oos,
                                                open_orders_accs)
                       ELSE s)
        \* the ratio after the settle loop s
        settled(u, coll_ratio, s) ==
            rated(u, coll_ratio, s,
                  get_collateral_ratio(s.a, s.g, get_prices(u.g, oracle), oos,
                                       open_orders_accs))
        \* the ratio on entry, and the settle loop
        refreshed(u) ==
            settled(u,
                    get_collateral_ratio(a, u.g, get_prices(u.g, oracle), oos,
                                         open_orders_accs),
                    liquidate_settle(u.g, a, 0))
    IN  refreshed(update_indexes(g, clock))

\* liquidate with neither the assertion that the ratio is below
\* maint_coll_ratio nor the return after the settle loop
liquidate_no_health_checks(g, a, liqor_acc, open_orders_accs, deposit_quantities, clock, oracle, oos) ==
    LET checked(u, coll_ratio, s, coll_ratio2, l, d, coll_ratio3) ==
            IF ~liqor_acc.is_signer THEN Fail("signer", g, a)
            ELSE IF ~u.ok THEN Fail("update_indexes", u.g, a)
            ELSE IF ~open_orders_match(a, oos, open_orders_accs, g.signer_key)
                 THEN Fail("open_orders", u.g, a)
            ELSE IF ~s.ok THEN Fail("arith", s.g, s.a)
            ELSE IF ~l.ok THEN Fail("socialize", l.g, l.a)
            ELSE IF ~d.ok THEN Fail("arith", d.g, d.a)
            ELSE IF ~(coll_ratio3 >= d.g.init_coll_ratio) THEN Fail("coll_ratio", d.g, d.a)
            ELSE Done(d.g, [d.a EXCEPT !.owner = liqor_acc.key])
        \* the ratio after the liquidator's deposits d
        deposited(u, coll_ratio, s, coll_ratio2, l, d) ==
            checked(u, coll_ratio, s, coll_ratio2, l, d,
                    get_collateral_ratio(d.a, d.g, get_prices(u.g, oracle), oos,
                                         open_orders_accs))
        \* the liquidator's deposits, after the socialization l
        socialized(u, coll_ratio, s, coll_ratio2, l) ==
            deposited(u, coll_ratio, s, coll_ratio2, l,
                      liquidate_deposits(l.g, l.a, deposit_quantities, 0))
        \* the socialization, where the ratio after the settle loop is below 1
        rated(u, coll_ratio, s, coll_ratio2) ==
            socialized(u, coll_ratio, s, coll_ratio2,
                       IF coll_ratio2 < from_num(1)
                       THEN liquidate_insolvent(s.g, s.a, get_prices(u.g, oracle), oos,
                                                open_orders_accs)
                       ELSE s)
        \* the ratio after the settle loop s
        settled(u, coll_ratio, s) ==
            rated(u, coll_ratio, s,
                  get_collateral_ratio(s.a, s.g, get_prices(u.g, oracle), oos,
                                       open_orders_accs))
        \* the ratio on entry, and the settle loop
        refreshed(u) ==
            settled(u,
                    get_collateral_ratio(a, u.g, get_prices(u.g, oracle), oos,
                                         open_orders_accs),
                    liquidate_settle(u.g, a, 0))
    IN  refreshed(update_indexes(g, clock))

\* liquidate going on to the liquidator's deposits where the ratio after the
\* settle loop is at least maint_coll_ratio
liquidate_no_stop_after_settle(g, a, liqor_acc, open_orders_accs, deposit_quantities, clock, oracle, oos) ==
    LET checked(u, coll_ratio, s, coll_ratio2, l, d, coll_ratio3) ==
            IF ~liqor_acc.is_signer THEN Fail("signer", g, a)
            ELSE IF ~u.ok THEN Fail("update_indexes", u.g, a)
            ELSE IF ~open_orders_match(a, oos, open_orders_accs, g.signer_key)
                 THEN Fail("open_orders", u.g, a)
            ELSE IF ~(coll_ratio < u.g.maint_coll_ratio) THEN Fail("maint", u.g, a)
            ELSE IF ~s.ok THEN Fail("arith", s.g, s.a)
            ELSE IF ~l.ok THEN Fail("socialize", l.g, l.a)
            ELSE IF ~d.ok THEN Fail("arith", d.g, d.a)
            ELSE IF ~(coll_ratio3 >= d.g.init_coll_ratio) THEN Fail("coll_ratio", d.g, d.a)
            ELSE Done(d.g, [d.a EXCEPT !.owner = liqor_acc.key])
        \* the ratio after the liquidator's deposits d
        deposited(u, coll_ratio, s, coll_ratio2, l, d) ==
            checked(u, coll_ratio, s, coll_ratio2, l, d,
                    get_collateral_ratio(d.a, d.g, get_prices(u.g, oracle), oos,
                                         open_orders_accs))
        \* the liquidator's deposits, after the socialization l
        socialized(u, coll_ratio, s, coll_ratio2, l) ==
            deposited(u, coll_ratio, s, coll_ratio2, l,
                      liquidate_deposits(l.g, l.a, deposit_quantities, 0))
        \* the socialization, where the ratio after the settle loop is below 1
        rated(u, coll_ratio, s, coll_ratio2) ==
            socialized(u, coll_ratio, s, coll_ratio2,
                       IF coll_ratio2 < from_num(1)
                       THEN liquidate_insolvent(s.g, s.a, get_prices(u.g, oracle), oos,
                                                open_orders_accs)
                       ELSE s)
        \* the ratio after the settle loop s
        settled(u, coll_ratio, s) ==
            rated(u, coll_ratio, s,
                  get_collateral_ratio(s.a, s.g, get_prices(u.g, oracle), oos,
                                       open_orders_accs))
        \* the ratio on entry, and the settle loop
        refreshed(u) ==
            settled(u,
                    get_collateral_ratio(a, u.g, get_prices(u.g, oracle), oos,
                                         open_orders_accs),
                    liquidate_settle(u.g, a, 0))
    IN  refreshed(update_indexes(g, clock))

\* Processor::liquidate
liquidate(g, a, liqor_acc, open_orders_accs, deposit_quantities, clock, oracle, oos) ==
    LET checked(u, coll_ratio, s, coll_ratio2, l, d, coll_ratio3) ==
            IF ~liqor_acc.is_signer THEN Fail("signer", g, a)
            ELSE IF ~u.ok THEN Fail("update_indexes", u.g, a)
            ELSE IF ~open_orders_match(a, oos, open_orders_accs, g.signer_key)
                 THEN Fail("open_orders", u.g, a)
            ELSE IF ~(coll_ratio < u.g.maint_coll_ratio) THEN Fail("maint", u.g, a)
            ELSE IF ~s.ok THEN Fail("arith", s.g, s.a)
            ELSE IF coll_ratio2 >= s.g.maint_coll_ratio THEN Done(s.g, s.a)
            ELSE IF ~l.ok THEN Fail("socialize", l.g, l.a)
            ELSE IF ~d.ok THEN Fail("arith", d.g, d.a)
            ELSE IF ~(coll_ratio3 >= d.g.init_coll_ratio) THEN Fail("coll_ratio", d.g, d.a)
            ELSE Done(d.g, [d.a EXCEPT !.owner = liqor_acc.key])
        \* the ratio after the liquidator's deposits d
        deposited(u, coll_ratio, s, coll_ratio2, l, d) ==
            checked(u, coll_ratio, s, coll_ratio2, l, d,
                    get_collateral_ratio(d.a, d.g, get_prices(u.g, oracle), oos,
                                         open_orders_accs))
        \* the liquidator's deposits, after the socialization l
        socialized(u, coll_ratio, s, coll_ratio2, l) ==
            deposited(u, coll_ratio, s, coll_ratio2, l,
                      liquidate_deposits(l.g, l.a, deposit_quantities, 0))
        \* the socialization, where the ratio after the settle loop is below 1
        rated(u, coll_ratio, s, coll_ratio2) ==
            socialized(u, coll_ratio, s, coll_ratio2,
                       IF coll_ratio2 < from_num(1)
                       THEN liquidate_insolvent(s.g, s.a, get_prices(u.g, oracle), oos,
                                                open_orders_accs)
                       ELSE s)
        \* the ratio after the settle loop s
        settled(u, coll_ratio, s) ==
            rated(u, coll_ratio, s,
                  get_collateral_ratio(s.a, s.g, get_prices(u.g, oracle), oos,
                                       open_orders_accs))
        \* the ratio on entry, and the settle loop
        refreshed(u) ==
            settled(u,
                    get_collateral_ratio(a, u.g, get_prices(u.g, oracle), oos,
                                         open_orders_accs),
                    liquidate_settle(u.g, a, 0))
    IN  refreshed(update_indexes(g, clock))

\* ------------------------------------------------------- the external venue
\* What the program sees of the serum dex through its cross-program calls:
\* the open-orders record before and after, and the amounts that left or
\* entered the vaults.

\* NewOrderV3 is accepted on an uninitialised open-orders account, or on one
\* of this market that the group's signer owns
dex_accepts(oos, key, market_i, owner) ==
    \/ oos[key].account_flags = NoFlags
    \/ /\ oos[key].account_flags = ValidOpenOrdersFlags
       /\ oos[key].owner = owner
       /\ oos[key].market = market_i

\* NewOrderV3: spent leaves the vault and rests, locked, in the record
dex_new_order(oos, key, market_i, side, spent, owner) ==
    [oos EXCEPT ![key] =
        [@ EXCEPT !.account_flags = ValidOpenOrdersFlags,
                  !.owner = owner,
                  !.market = market_i,
                  !.native_pc_total = @ + (IF side = "Bid" THEN spent ELSE 0),
                  !.native_coin_total = @ + (IF side = "Ask" THEN spent ELSE 0)]]

\* A match of everything that rests locked on one side, at price p
dex_fill(oo, side, p) ==
    LET locked_pc   == oo.native_pc_total - oo.native_pc_free
        locked_coin == oo.native_coin_total - oo.native_coin_free
    IN  IF side = "Bid"
        THEN [oo EXCEPT !.native_pc_total = @ - locked_pc,
                        !.native_coin_total = @ + (locked_pc \div p),
                        !.native_coin_free = @ + (locked_pc \div p)]
        ELSE [oo EXCEPT !.native_coin_total = @ - locked_coin,
                        !.native_pc_total = @ + locked_coin * p,
                        !.native_pc_free = @ + locked_coin * p]

\* CancelOrder: what rested locked becomes free
dex_cancel(oo) ==
    [oo EXCEPT !.native_coin_free = oo.native_coin_total,
               !.native_pc_free = oo.native_pc_total]

\* SettleFunds: the free balances leave the record for the vaults
dex_settle(oo) ==
    [oo EXCEPT !.native_coin_total = @ - oo.native_coin_free,
               !.native_pc_total = @ - oo.native_pc_free,
               !.native_coin_free = 0,
               !.native_pc_free = 0]

\* --------------------------------------------------------- trade operations
FailT(err, g, a, oos) == [ok |-> FALSE, err |-> err, g |-> g, a |-> a, oos |-> oos]

DoneT(g, a, oos) == [ok |-> TRUE, err |-> "none", g |-> g, a |-> a, oos |-> oos]

\* place_order's loop storing the supplied reference on every order, not
\* only on the first
place_order_open_orders_always_stores(a, oos, open_orders_accs, market_i, signer_key) ==
    LET first == a.open_orders[market_i] = DefaultKey
        ok == /\ open_orders_accs[market_i] # DefaultKey
              /\ first => oos[open_orders_accs[market_i]].account_flags = NoFlags
              /\ \A i \in Markets \ {market_i} :
                    /\ open_orders_accs[i] = a.open_orders[i]
                    /\ check_open_orders(oos, open_orders_accs[i], signer_key)
    IN  [ok |-> ok,
         a  |-> [a EXCEPT !.open_orders[market_i] = open_orders_accs[market_i]]]

\* Processor::place_order, the loop over the supplied open-orders accounts:
\* ok, and the account with the market's reference stored on first use
place_order_open_orders(a, oos, open_orders_accs, market_i, signer_key) ==
    LET first == a.open_orders[market_i] = DefaultKey
        ok == /\ open_orders_accs[market_i] # DefaultKey
              /\ first => oos[open_orders_accs[market_i]].account_flags = NoFlags
              /\ \A i \in Markets \ {market_i} :
                    /\ open_orders_accs[i] = a.open_orders[i]
                    /\ check_open_orders(oos, open_orders_accs[i], signer_key)
    IN  [ok |-> ok,
         a  |-> IF first THEN [a EXCEPT !.open_orders[market_i] = open_orders_accs[market_i]]
                ELSE a]

\* place_order borrowing the whole of spent where the deposit does not
\* cover it, after taking the deposit
place_order_borrowing_all_spent(g, a, owner_acc, open_orders_accs, market_i, side, spent, clock, oracle, oos) ==
    LET token_i == IF side = "Bid" THEN NUM_MARKETS ELSE market_i
        key     == open_orders_accs[market_i]
        oos2    == dex_new_order(oos, key, market_i, side, spent, g.signer_key)
        checked(u, reduce_only, o, native_deposit, r1, r2, r3, r, coll_ratio) ==
            LET index == u.g.indexes[token_i]
            IN  IF ~u.ok THEN FailT("update_indexes", u.g, a, oos)
                ELSE IF ~owner_acc.is_signer \/ a.owner # owner_acc.key
                     THEN FailT("owner", u.g, a, oos)
                ELSE IF ~o.ok THEN FailT("open_orders", u.g, o.a, oos)
                ELSE IF ~dex_accepts(oos, key, market_i, g.signer_key)
                     THEN FailT("dex", u.g, o.a, oos)
                ELSE IF index.deposit = 0 \/ index.borrow = 0
                     THEN FailT("arith", u.g, o.a, oos2)
                ELSE IF native_deposit >= spent /\ ~r1.ok THEN FailT("arith", r1.g, r1.a, oos2)
                ELSE IF native_deposit < spent /\ ~r2.ok THEN FailT("arith", r2.g, r2.a, oos2)
                ELSE IF native_deposit < spent /\ reduce_only
                     THEN FailT("reduce_only", r2.g, r2.a, oos2)
                ELSE IF native_deposit < spent /\ ~r3.ok THEN FailT("arith", r3.g, r3.a, oos2)
                ELSE IF native_deposit < spent
                        /\ ~(get_native_borrow(r3.a, index, token_i)
                                 <= r3.g.borrow_limits[token_i])
                     THEN FailT("borrow_limit", r3.g, r3.a, oos2)
                ELSE IF ~(reduce_only \/ coll_ratio >= r.g.init_coll_ratio)
                     THEN FailT("coll_ratio", r.g, r.a, oos2)
                ELSE IF ~has_valid_deposits_borrows(r.g, token_i)
                     THEN FailT("deposits_borrows", r.g, r.a, oos2)
                ELSE DoneT(r.g, r.a, oos2)
        \* the ratio after the entries r
        entered(u, reduce_only, o, native_deposit, r1, r2, r3, r) ==
            checked(u, reduce_only, o, native_deposit, r1, r2, r3, r,
                    get_collateral_ratio(r.a, r.g, get_prices(u.g, oracle), oos2,
                                         open_orders_accs))
        \* the entries: r1 where the deposit covers spent, r3 where it does not
        borrowed(u, reduce_only, o, native_deposit, r1, r2, r3) ==
            entered(u, reduce_only, o, native_deposit, r1, r2, r3,
                    IF native_deposit >= spent THEN r1 ELSE r3)
        \* r3: the rest of spent borrowed, after the whole deposit was taken (r2)
        emptied(u, reduce_only, o, native_deposit, r1, r2) ==
            borrowed(u, reduce_only, o, native_deposit, r1, r2,
                     checked_add_borrow(r2.g, r2.a, token_i,
                         fdiv(from_num(spent), u.g.indexes[token_i].borrow)))
        \* r1: spent taken from the deposit; r2: the whole deposit taken
        measured(u, reduce_only, o, native_deposit) ==
            emptied(u, reduce_only, o, native_deposit,
                    checked_sub_deposit(u.g, o.a, token_i,
                        fdiv(from_num(spent), u.g.indexes[token_i].deposit)),
                    checked_sub_deposit(u.g, o.a, token_i, o.a.deposits[token_i]))
        \* the account's native deposit of the token
        stored(u, reduce_only, o) ==
            measured(u, reduce_only, o,
                     get_native_deposit(o.a, u.g.indexes[token_i], token_i))
        \* reduce_only from the ratio on entry, and the open-orders loop
        refreshed(u) ==
            stored(u,
                   get_collateral_ratio(a, u.g, get_prices(u.g, oracle), oos,
                                        open_orders_accs) < u.g.init_coll_ratio,
                   place_order_open_orders(a, oos, open_orders_accs, market_i, g.signer_key))
    IN  refreshed(update_indexes(g, clock))

\* Processor::place_order.  spent is what the venue took out of the vault.
place_order(g, a, owner_acc, open_orders_accs, market_i, side, spent, clock, oracle, oos) ==
    LET token_i == IF side = "Bid" THEN NUM_MARKETS ELSE market_i
        key     == open_orders_accs[market_i]
        oos2    == dex_new_order(oos, key, market_i, side, spent, g.signer_key)
        checked(u, reduce_only, o, native_deposit, r1, r2, r3, r, coll_ratio) ==
            LET index == u.g.indexes[token_i]
            IN  IF ~u.ok THEN FailT("update_indexes", u.g, a, oos)
                ELSE IF ~owner_acc.is_signer \/ a.owner # owner_acc.key
                     THEN FailT("owner", u.g, a, oos)
                ELSE IF ~o.ok THEN FailT("open_orders", u.g, o.a, oos)
                ELSE IF ~dex_accepts(oos, key, market_i, g.signer_key)
                     THEN FailT("dex", u.g, o.a, oos)
                ELSE IF index.deposit = 0 \/ index.borrow = 0
                     THEN FailT("arith", u.g, o.a, oos2)
                ELSE IF native_deposit >= spent /\ ~r1.ok THEN FailT("arith", r1.g, r1.a, oos2)
                ELSE IF native_deposit < spent /\ ~r2.ok THEN FailT("arith", r2.g, r2.a, oos2)
                ELSE IF native_deposit < spent /\ reduce_only
                     THEN FailT("reduce_only", r2.g, r2.a, oos2)
                ELSE IF native_deposit < spent /\ ~r3.ok THEN FailT("arith", r3.g, r3.a, oos2)
                ELSE IF native_deposit < spent
                        /\ ~(get_native_borrow(r3.a, index, token_i)
                                 <= r3.g.borrow_limits[token_i])
                     THEN FailT("borrow_limit", r3.g, r3.a, oos2)
                ELSE IF ~(reduce_only \/ coll_ratio >= r.g.init_coll_ratio)
                     THEN FailT("coll_ratio", r.g, r.a, oos2)
                ELSE IF ~has_valid_deposits_borrows(r.g, token_i)
                     THEN FailT("deposits_borrows", r.g, r.a, oos2)
                ELSE DoneT(r.g, r.a, oos2)
        \* the ratio after the entries r
        entered(u, reduce_only, o, native_deposit, r1, r2, r3, r) ==
            checked(u, reduce_only, o, native_deposit, r1, r2, r3, r,
                    get_collateral_ratio(r.a, r.g, get_prices(u.g, oracle), oos2,
                                         open_orders_accs))
        \* the entries: r1 where the deposit covers spent, r3 where it does not
        borrowed(u, reduce_only, o, native_deposit, r1, r2, r3) ==
            entered(u, reduce_only, o, native_deposit, r1, r2, r3,
                    IF native_deposit >= spent THEN r1 ELSE r3)
        \* r3: the rest of spent borrowed, after the whole deposit was taken (r2)
        emptied(u, reduce_only, o, native_deposit, r1, r2) ==
            borrowed(u, reduce_only, o, native_deposit, r1, r2,
                     checked_add_borrow(r2.g, r2.a, token_i,
                         fdiv(from_num(spent - native_deposit), u.g.indexes[token_i].borrow)))
        \* r1: spent taken from the deposit; r2: the whole deposit taken
        measured(u, reduce_only, o, native_deposit) ==
            emptied(u, reduce_only, o, native_deposit,
                    checked_sub_deposit(u.g, o.a, token_i,
                        fdiv(from_num(spent), u.g.indexes[token_i].deposit)),
                    checked_sub_deposit(u.g, o.a, token_i, o.a.deposits[token_i]))
        \* the account's native deposit of the token
        stored(u, reduce_only, o) ==
            measured(u, reduce_only, o,
                     get_native_deposit(o.a, u.g.indexes[token_i], token_i))
        \* reduce_only from the ratio on entry, and the open-orders loop
        refreshed(u) ==
            stored(u,
                   get_collateral_ratio(a, u.g, get_prices(u.g, oracle), oos,
                                        open_orders_accs) < u.g.init_coll_ratio,
                   place_order_open_orders(a, oos, open_orders_accs, market_i, g.signer_key))
    IN  refreshed(update_indexes(g, clock))

\* Processor::settle_funds
settle_funds(g, a, owner_acc, market_i, open_orders_key, clock, oos) ==
    LET pre  == oos[open_orders_key]
        post == dex_settle(pre)
        settled(u) ==
            LET base_change  == fdiv(from_num(pre.native_coin_free - post.native_coin_free),
                                     u.g.indexes[market_i].deposit)
                quote_change == fdiv(from_num(pre.native_pc_free - post.native_pc_free),
                                     u.g.indexes[NUM_MARKETS].deposit)
                r1           == checked_add_deposit(u.g, a, market_i, base_change)
                r2           == IF ~r1.ok THEN r1
                                ELSE checked_add_deposit(r1.g, r1.a, NUM_MARKETS, quote_change)
            IN  IF ~u.ok THEN FailT("update_indexes", u.g, a, oos)
                ELSE IF ~owner_acc.is_signer \/ a.owner # owner_acc.key
                     THEN FailT("owner", u.g, a, oos)
                ELSE IF a.open_orders[market_i] # open_orders_key
                     THEN FailT("open_orders", u.g, a, oos)
                ELSE IF open_orders_key = DefaultKey THEN DoneT(u.g, a, oos)
                ELSE IF pre.native_coin_free = 0 /\ pre.native_pc_free = 0
                     THEN DoneT(u.g, a, oos)
                ELSE IF u.g.indexes[market_i].deposit = 0 \/ u.g.indexes[NUM_MARKETS].deposit = 0
                     THEN FailT("arith", u.g, a, oos)
                ELSE IF ~r2.ok THEN FailT("arith", r2.g, r2.a, oos)
                ELSE DoneT(r2.g, r2.a, [oos EXCEPT ![open_orders_key] = post])
    IN  settled(update_indexes(g, clock))

\* Processor::cancel_order
cancel_order(g, a, owner_acc, market_i, open_orders_key, clock, oos) ==
    LET cancelled(u) ==
            IF ~u.ok THEN FailT("update_indexes", u.g, a, oos)
            ELSE IF ~owner_acc.is_signer \/ a.owner # owner_acc.key
                 THEN FailT("owner", u.g, a, oos)
            ELSE IF a.open_orders[market_i] # open_orders_key
                 THEN FailT("open_orders", u.g, a, oos)
            ELSE IF open_orders_key = DefaultKey THEN FailT("dex", u.g, a, oos)
            ELSE DoneT(u.g, a, [oos EXCEPT ![open_orders_key] = dex_cancel(@)])
    IN  cancelled(update_indexes(g, clock))

\* Processor::place_and_settle, the loop over the supplied open-orders
\* accounts: as place_order's, and a stored reference must equal the
\* supplied one
place_and_settle_open_orders(a, oos, open_orders_accs, market_i, signer_key) ==
    LET first == a.open_orders[market_i] = DefaultKey
        ok == /\ open_orders_accs[market_i] # DefaultKey
              /\ first => oos[open_orders_accs[market_i]].account_flags = NoFlags
              /\ ~first => /\ open_orders_accs[market_i] = a.open_orders[market_i]
                           /\ check_open_orders(oos, open_orders_accs[market_i], signer_key)
              /\ \A i \in Markets \ {market_i} :
                    /\ open_orders_accs[i] = a.open_orders[i]
                    /\ check_open_orders(oos, open_orders_accs[i], signer_key)
    IN  [ok |-> ok,
         a  |-> IF first THEN [a EXCEPT !.open_orders[market_i] = open_orders_accs[market_i]]
                ELSE a]

\* Processor::place_and_settle, the ledger entries for the out token: a net
\* outflow total_out is taken from the deposit and then borrowed, a net
\* inflow is deposited
place_and_settle_out(g, a, out_token_i, pre_out, post_out, reduce_only) ==
    LET out_index      == g.indexes[out_token_i]
        total_out      == pre_out - post_out
        native_deposit == get_native_deposit(a, out_index, out_token_i)
        r1 == checked_sub_deposit(g, a, out_token_i, a.deposits[out_token_i])
        r2 == checked_add_borrow(r1.g, r1.a, out_token_i,
                                 fdiv(from_num(total_out - native_deposit), out_index.borrow))
        r3 == checked_sub_deposit(g, a, out_token_i, fdiv(from_num(total_out), out_index.deposit))
        r4 == checked_add_deposit(g, a, out_token_i,
                                  fdiv(from_num(post_out - pre_out), out_index.deposit))
    IN  IF out_index.deposit = 0 \/ out_index.borrow = 0 THEN Fail("arith", g, a)
        ELSE IF post_out < pre_out
        THEN IF native_deposit < total_out
             THEN IF ~r1.ok THEN Fail("arith", r1.g, r1.a)
                  ELSE IF reduce_only THEN Fail("reduce_only", r1.g, r1.a)
                  ELSE IF ~r2.ok THEN Fail("arith", r2.g, r2.a)
                  ELSE IF ~(get_native_borrow(r2.a, out_index, out_token_i)
                                <= r2.g.borrow_limits[out_token_i])
                       THEN Fail("borrow_limit", r2.g, r2.a)
                  ELSE Done(r2.g, r2.a)
             ELSE IF ~r3.ok THEN Fail("arith", r3.g, r3.a) ELSE Done(r3.g, r3.a)
        ELSE IF ~r4.ok THEN Fail("arith", r4.g, r4.a)
        ELSE Done(r4.g, r4.a)

\* Processor::place_and_settle.  spent is what the new order took out of the
\* out token's vault; fill says whether the venue matched the order at once.
place_and_settle(g, a, owner_acc, open_orders_accs, market_i, side, spent, fill, clock, oracle, oos) ==
    LET in_token_i  == IF side = "Bid" THEN market_i ELSE NUM_MARKETS
        out_token_i == IF side = "Bid" THEN NUM_MARKETS ELSE market_i
        key         == open_orders_accs[market_i]
        oos2        == dex_new_order(oos, key, market_i, side, spent, g.signer_key)
        matched     == IF fill THEN dex_fill(oos2[key], side, oracle[market_i]) ELSE oos2[key]
        settled     == dex_settle(matched)
        oos3        == [oos2 EXCEPT ![key] = settled]
        freed_base  == matched.native_coin_free
        freed_quote == matched.native_pc_free
        \* the vaults' amounts after, taking each amount before as spent
        pre_out     == spent
        post_out    == IF side = "Bid" THEN freed_quote ELSE freed_base
        post_in     == IF side = "Bid" THEN freed_base ELSE freed_quote
        checked(u, reduce_only, o, r1, r3, r4, coll_ratio) ==
            IF ~u.ok THEN FailT("update_indexes", u.g, a, oos)
            ELSE IF ~owner_acc.is_signer \/ a.owner # owner_acc.key
                 THEN FailT("owner", u.g, a, oos)
            ELSE IF ~o.ok THEN FailT("open_orders", u.g, o.a, oos)
            ELSE IF ~dex_accepts(oos, key, market_i, g.signer_key)
                 THEN FailT("dex", u.g, o.a, oos)
            ELSE IF ~r1.ok THEN FailT(r1.err, r1.g, r1.a, oos3)
            ELSE IF u.g.indexes[in_token_i].deposit = 0 THEN FailT("arith", r1.g, r1.a, oos3)
            ELSE IF ~r3.ok THEN FailT("arith", r3.g, r3.a, oos3)
            ELSE IF ~r4.ok THEN FailT("arith", r4.g, r4.a, oos3)
            ELSE IF ~(reduce_only \/ coll_ratio >= r4.g.init_coll_ratio)
                 THEN FailT("coll_ratio", r4.g, r4.a, oos3)
            ELSE IF ~has_valid_deposits_borrows(r4.g, out_token_i)
                 THEN FailT("deposits_borrows", r4.g, r4.a, oos3)
            ELSE DoneT(r4.g, r4.a, oos3)
        \* the ratio after every entry
        settled_in(u, reduce_only, o, r1, r3, r4) ==
            checked(u, reduce_only, o, r1, r3, r4,
                    get_collateral_ratio(r4.a, r4.g, get_prices(u.g, oracle), oos3,
                                         open_orders_accs))
        \* r4: the in token's borrow settled
        settled_out(u, reduce_only, o, r1, r3) ==
            settled_in(u, reduce_only, o, r1, r3,
                       settle_borrow_full_unchecked(r3.g, r3.a, in_token_i))
        \* r3: the out token's borrow settled, after the in token's deposit r2
        deposited(u, reduce_only, o, r1, r2) ==
            settled_out(u, reduce_only, o, r1,
                        IF ~r2.ok THEN r2
                        ELSE settle_borrow_full_unchecked(r2.g, r2.a, out_token_i))
        \* r2: what came in is deposited
        paid(u, reduce_only, o, r1) ==
            deposited(u, reduce_only, o, r1,
                      checked_add_deposit(r1.g, r1.a, in_token_i,
                          fdiv(from_num(post_in), u.g.indexes[in_token_i].deposit)))
        \* r1: the out token's entries
        stored(u, reduce_only, o) ==
            paid(u, reduce_only, o,
                 place_and_settle_out(u.g, o.a, out_token_i, pre_out, post_out, reduce_only))
        \* reduce_only from the ratio on entry, and the open-orders loop
        refreshed(u) ==
            stored(u,
                   get_collateral_ratio(a, u.g, get_prices(u.g, oracle), oos,
                                        open_orders_accs) < u.g.init_coll_ratio,
                   place_and_settle_open_orders(a, oos, open_orders_accs, market_i,
                                                g.signer_key))
    IN  refreshed(update_indexes(g, clock))

\* ------------------------------------------------------------ state machine
VARIABLES
    mango_group,      \* the MangoGroup record
    margin_accounts,  \* the MarginAccount record of each margin account
    open_orders,      \* the venue's open-orders record of each key
    oracle,           \* each market's oracle median
    clock,            \* Clock::unix_timestamp, in ticks
    last,             \* the last instruction processed and its outcome
    budget            \* how many more steps that change the state are followed

vars == <<mango_group, margin_accounts, open_orders, oracle, clock, last, budget>>

\* ------------------------------------------------------------------ inputs
DepositQuantities == {100}
WithdrawQuantities == {50, 100}
BorrowQuantities == {50}
SettleQuantities == {50}
SpentQuantities == {50}
OraclePrices == {1, 2, 3}
BorrowLimits == {40, 100}
Sides == {"Bid", "Ask"}

\* what a liquidator offers to deposit, per token
LiqorDeposits ==
    { [i \in Tokens |-> 0],
      [i \in Tokens |-> IF i = NUM_MARKETS THEN 100 ELSE 0],
      [i \in Tokens |-> IF i = 0 THEN 50 ELSE 0] }

\* A well-formed call on a margin account: its recorded owner signs and the
\* stored open-orders accounts are supplied.
Owner(ma) == [key |-> margin_accounts[ma].owner, is_signer |-> TRUE]

Stored(ma) == margin_accounts[ma].open_orders

\* The ill-formed calls: another user signs, the owner does not sign, or
\* market 0's open-orders account is not the stored one.
Faulty(ma) ==
    {[signer |-> [key |-> u, is_signer |-> TRUE], accs |-> Stored(ma)] :
        u \in {"alice", "liqor"} \ {margin_accounts[ma].owner}}
    \cup {[signer |-> [key |-> margin_accounts[ma].owner, is_signer |-> FALSE],
           accs |-> Stored(ma)]}
    \cup {[signer |-> Owner(ma), accs |-> [Stored(ma) EXCEPT ![0] = k]] :
            k \in (OpenOrdersKeys \cup {DefaultKey}) \ {Stored(ma)[0]}}

\* The calls of an operation on tokens ts with quantities qs: every
\* well-formed one, and each ill-formed one on one token and quantity.
Calls(ma, ts, qs) ==
    {[signer |-> Owner(ma), accs |-> Stored(ma), token |-> t, quantity |-> q] :
        t \in ts, q \in qs}
    \cup {[signer |-> f.signer, accs |-> f.accs, token |-> 0,
           quantity |-> CHOOSE q \in qs : \A r \in qs : q <= r] : f \in Faulty(ma)}

\* The calls of a trade: on market m with open-orders account k supplied for
\* it, and each ill-formed one
TradeCalls(ma) ==
    {[signer |-> Owner(ma), accs |-> [Stored(ma) EXCEPT ![m] = k], market |-> m] :
        m \in Markets, k \in OpenOrdersKeys}
    \cup {[signer |-> f.signer, accs |-> f.accs, market |-> 1] : f \in Faulty(ma)}

\* What last records where an instruction takes no open-orders accounts, and
\* where it takes the open-orders account of one market
NoAccs == [i \in Markets |-> "none"]

OneAcc(market_i, key) == [NoAccs EXCEPT ![market_i] = key]

Record(op, ma, signer, accs, token, quantity, res) ==
    [op |-> op, ma |-> ma, signer |-> signer.key, is_signer |-> signer.is_signer,
     accs |-> accs, token |-> token, quantity |-> quantity,
     ok |-> res.ok, err |-> res.err]

Init ==
    /\ clock = 0
    /\ mango_group = init_mango_group(0, from_float(11, 10), from_float(12, 10),
                                      [i \in Tokens |-> 1000])
    /\ margin_accounts = [m \in MarginAccounts |->
                            init_margin_account(IF m = "m1" THEN "alice" ELSE "bob")]
    /\ open_orders = [k \in OpenOrdersKeys |-> EmptyOpenOrders]
    /\ oracle = [i \in Markets |-> 1]
    /\ last = [op |-> "init", ma |-> "m1", signer |-> "alice", is_signer |-> TRUE, accs |-> NoAccs, token |-> 0, quantity |-> 0,
               ok |-> TRUE, err |-> "none"]
    /\ budget = MaxOps

\* A behaviour is followed for budget steps that change the state.  A
\* rejected instruction changes nothing but last, which records it, so a
\* behaviour is followed up to and including its first rejected instruction:
\* what could follow it is what follows the state before it.
Running == last.ok /\ budget > 0

\* A host that keeps what a rejected instruction wrote to the group and the
\* account before it was rejected
Commit_keeping_partial_writes(ma, res) ==
    /\ mango_group' = res.g
    /\ margin_accounts' = [margin_accounts EXCEPT ![ma] = res.a]
    /\ budget' = IF res.ok THEN budget - 1 ELSE budget

\* A host that stores the account an instruction wrote in every margin
\* account of the group
Commit_to_every_account(ma, res) ==
    /\ mango_group' = IF res.ok THEN res.g ELSE mango_group
    /\ margin_accounts' = IF res.ok THEN [m \in MarginAccounts |-> res.a]
                          ELSE margin_accounts
    /\ budget' = IF res.ok THEN budget - 1 ELSE budget

\* The host commits the group and the account of a successful instruction
\* and nothing of a failed one.
Commit(ma, res) ==
    /\ mango_group' = IF res.ok THEN res.g ELSE mango_group
    /\ margin_accounts' = IF res.ok THEN [margin_accounts EXCEPT ![ma] = res.a]
                          ELSE margin_accounts
    /\ budget' = IF res.ok THEN budget - 1 ELSE budget

CommitT(ma, res) ==
    /\ Commit(ma, res)
    /\ open_orders' = IF res.ok THEN res.oos ELSE open_orders

Deposit(ma, signer, token_index, quantity) ==
    /\ Running
    /\ \E res \in {deposit(mango_group, margin_accounts[ma], signer, token_index, quantity, clock)} :
          /\ Commit(ma, res)
          /\ last' = Record("deposit", ma, signer, NoAccs, token_index, quantity, res)
          /\ UNCHANGED <<open_orders, oracle, clock>>

Withdraw(ma, signer, accs, token_index, quantity) ==
    /\ Running
    /\ \E res \in {withdraw(mango_group, margin_accounts[ma], signer, accs, token_index,
                            quantity, clock, oracle, open_orders)} :
          /\ Commit(ma, res)
          /\ last' = Record("withdraw", ma, signer, accs, token_index, quantity, res)
          /\ UNCHANGED <<open_orders, oracle, clock>>

Borrow(ma, signer, accs, token_index, quantity) ==
    /\ Running
    /\ \E res \in {borrow(mango_group, margin_accounts[ma], signer, accs, token_index,
                          quantity, clock, oracle, open_orders)} :
          /\ Commit(ma, res)
          /\ last' = Record("borrow", ma, signer, accs, token_index, quantity, res)
          /\ UNCHANGED <<open_orders, oracle, clock>>

SettleBorrow(ma, signer, token_index, quantity) ==
    /\ Running
    /\ \E res \in {settle_borrow(mango_group, margin_accounts[ma], signer, token_index,
                                 quantity, clock)} :
          /\ Commit(ma, res)
          /\ last' = Record("settle_borrow", ma, signer, NoAccs, token_index, quantity, res)
          /\ UNCHANGED <<open_orders, oracle, clock>>

Liquidate(ma, signer, accs, deposit_quantities) ==
    /\ Running
    /\ \E res \in {liquidate(mango_group, margin_accounts[ma], signer, accs,
                             deposit_quantities, clock, oracle, open_orders)} :
          /\ Commit(ma, res)
          /\ last' = Record("liquidate", ma, signer, accs, NUM_MARKETS,
                            deposit_quantities[NUM_MARKETS], res)
          /\ UNCHANGED <<open_orders, oracle, clock>>

PlaceOrder(ma, signer, accs, market_i, side, spent) ==
    /\ Running
    /\ \E res \in {place_order(mango_group, margin_accounts[ma], signer, accs, market_i,
                               side, spent, clock, oracle, open_orders)} :
          /\ CommitT(ma, res)
          /\ last' = Record("place_order", ma, signer, accs,
                            IF side = "Bid" THEN NUM_MARKETS ELSE market_i, spent, res)
          /\ UNCHANGED <<oracle, clock>>

PlaceAndSettle(ma, signer, accs, market_i, side, spent, fill) ==
    /\ Running
    /\ \E res \in {place_and_settle(mango_group, margin_accounts[ma], signer, accs, market_i,
                                    side, spent, fill, clock, oracle, open_orders)} :
          /\ CommitT(ma, res)
          /\ last' = Record("place_and_settle", ma, signer, accs,
                            IF side = "Bid" THEN NUM_MARKETS ELSE market_i, spent, res)
          /\ UNCHANGED <<oracle, clock>>

SettleFunds(ma, signer, market_i, key) ==
    /\ Running
    /\ \E res \in {settle_funds(mango_group, margin_accounts[ma], signer, market_i, key,
                                clock, open_orders)} :
          /\ CommitT(ma, res)
          /\ last' = Record("settle_funds", ma, signer, OneAcc(market_i, key), market_i, 0, res)
          /\ UNCHANGED <<oracle, clock>>

CancelOrder(ma, signer, market_i, key) ==
    /\ Running
    /\ \E res \in {cancel_order(mango_group, margin_accounts[ma], signer, market_i, key,
                                clock, open_orders)} :
          /\ CommitT(ma, res)
          /\ last' = Record("cancel_order", ma, signer, OneAcc(market_i, key), market_i, 0, res)
          /\ UNCHANGED <<oracle, clock>>

ChangeBorrowLimit(signer, token_index, borrow_limit) ==
    LET res == change_borrow_limit(mango_group, signer, token_index, borrow_limit)
    IN  /\ Running
        /\ mango_group' = IF res.ok THEN res.g ELSE mango_group
        /\ budget' = IF res.ok THEN budget - 1 ELSE budget
        /\ last' = Record("change_borrow_limit", "m1", signer, NoAccs, token_index,
                          borrow_limit, res)
        /\ UNCHANGED <<margin_accounts, open_orders, oracle, clock>>

\* ------------------------------------------------------------- environment
\* The cluster's clock moves on.
ClockAdvance ==
    /\ Running
    /\ clock < MaxClock
    /\ clock' = clock + 1
    /\ budget' = budget - 1
    /\ last' = [op |-> "clock", ma |-> "m1", signer |-> "alice", is_signer |-> TRUE, accs |-> NoAccs, token |-> 0,
                quantity |-> 0, ok |-> TRUE, err |-> "none"]
    /\ UNCHANGED <<mango_group, margin_accounts, open_orders, oracle>>

\* An oracle publishes a new median.
OracleUpdate(market_i, median) ==
    /\ Running
    /\ oracle[market_i] # median
    /\ oracle' = [oracle EXCEPT ![market_i] = median]
    /\ budget' = budget - 1
    /\ last' = [op |-> "oracle", ma |-> "m1", signer |-> "alice", is_signer |-> TRUE, accs |-> NoAccs, token |-> market_i,
                quantity |-> median, ok |-> TRUE, err |-> "none"]
    /\ UNCHANGED <<mango_group, margin_accounts, open_orders, clock>>

\* The venue matches what rests locked in an open-orders record.
DexMatch(key, side) ==
    /\ Running
    /\ open_orders[key].account_flags = ValidOpenOrdersFlags
    /\ dex_fill(open_orders[key], side, oracle[open_orders[key].market]) # open_orders[key]
    /\ open_orders' = [open_orders EXCEPT
                         ![key] = dex_fill(@, side, oracle[open_orders[key].market])]
    /\ budget' = budget - 1
    /\ last' = [op |-> "dex_match", ma |-> "m1", signer |-> "alice", is_signer |-> TRUE, accs |-> NoAccs,
                token |-> open_orders[key].market, quantity |-> 0, ok |-> TRUE, err |-> "none"]
    /\ UNCHANGED <<mango_group, margin_accounts, oracle, clock>>

Next ==
    \/ \E ma \in MarginAccounts : \E c \in Calls(ma, Tokens, DepositQuantities) :
          Deposit(ma, c.signer, c.token, c.quantity)
    \/ \E ma \in MarginAccounts : \E c \in Calls(ma, Tokens, WithdrawQuantities) :
          Withdraw(ma, c.signer, c.accs, c.token, c.quantity)
    \/ \E ma \in MarginAccounts : \E c \in Calls(ma, Tokens, BorrowQuantities) :
          Borrow(ma, c.signer, c.accs, c.token, c.quantity)
    \/ \E ma \in MarginAccounts : \E c \in Calls(ma, Tokens, SettleQuantities) :
          SettleBorrow(ma, c.signer, c.token, c.quantity)
    \/ \E ma \in MarginAccounts, dq \in LiqorDeposits :
          \/ Liquidate(ma, [key |-> "liqor", is_signer |-> TRUE], Stored(ma), dq)
          \/ \E f \in Faulty(ma) : Liquidate(ma, f.signer, f.accs, dq)
    \/ \E ma \in MarginAccounts, side \in Sides, q \in SpentQuantities :
          \E c \in TradeCalls(ma) : PlaceOrder(ma, c.signer, c.accs, c.market, side, q)
    \/ \E ma \in MarginAccounts, side \in Sides, q \in SpentQuantities, fill \in BOOLEAN :
          \E c \in TradeCalls(ma) :
             PlaceAndSettle(ma, c.signer, c.accs, c.market, side, q, fill)
    \/ \E ma \in MarginAccounts : \E c \in TradeCalls(ma) :
          SettleFunds(ma, c.signer, c.market, c.accs[c.market])
    \/ \E ma \in MarginAccounts : \E c \in TradeCalls(ma) :
          CancelOrder(ma, c.signer, c.market, c.accs[c.market])
    \/ \E t \in Tokens, l \in BorrowLimits :
          ChangeBorrowLimit([key |-> AdminKey, is_signer |-> TRUE], t, l)
    \/ \E s \in {[key |-> "alice", is_signer |-> TRUE], [key |-> AdminKey, is_signer |-> FALSE]} :
          ChangeBorrowLimit(s, 0, 40)
    \/ ClockAdvance
    \/ \E m \in Markets, p \in OraclePrices : OracleUpdate(m, p)
    \/ \E k \in OpenOrdersKeys, side \in Sides : DexMatch(k, side)

Spec == Init /\ [][Next]_vars

\* ------------------------------------------------------ the lending ledger
\* The sequences of deposit, withdraw, borrow and settle_borrow instructions
\* on a freshly initialised group, with the clock and the oracles moving.
InitLend ==
    /\ clock = 0
    /\ mango_group = init_mango_group(0, from_float(11, 10), from_float(12, 10),
                                      [i \in Tokens |-> 1000])
    /\ margin_accounts = [m \in MarginAccounts |->
                            init_margin_account(IF m = "m1" THEN "alice" ELSE "bob")]
    /\ open_orders = [k \in OpenOrdersKeys |-> EmptyOpenOrders]
    /\ oracle = [i \in Markets |-> 1]
    /\ last = [op |-> "init", ma |-> "m1", signer |-> "alice", is_signer |-> TRUE, accs |-> NoAccs, token |-> 0, quantity |-> 0,
               ok |-> TRUE, err |-> "none"]
    /\ budget = MaxLendOps

NextLend ==
    \/ \E ma \in MarginAccounts : \E c \in Calls(ma, Tokens, DepositQuantities) :
          Deposit(ma, c.signer, c.token, c.quantity)
    \/ \E ma \in MarginAccounts : \E c \in Calls(ma, Tokens, WithdrawQuantities) :
          Withdraw(ma, c.signer, c.accs, c.token, c.quantity)
    \/ \E ma \in MarginAccounts : \E c \in Calls(ma, Tokens, BorrowQuantities) :
          Borrow(ma, c.signer, c.accs, c.token, c.quantity)
    \/ \E ma \in MarginAccounts : \E c \in Calls(ma, Tokens, SettleQuantities) :
          SettleBorrow(ma, c.signer, c.token, c.quantity)
    \/ ClockAdvance
    \/ \E m \in Markets, p \in OraclePrices : OracleUpdate(m, p)

SpecLend == InitLend /\ [][NextLend]_vars

\* ------------------------------------------------------------------ claims
\* Invariant I1 for one token, in the program's arithmetic: the native
\* deposits, total_deposits * indexes.deposit, cover the native borrows,
\* total_borrows * indexes.borrow.
I1(g, i) ==
    fmul(g.total_deposits[i], g.indexes[i].deposit)
        >= fmul(g.total_borrows[i], g.indexes[i].borrow)

LendOps == {"deposit", "withdraw", "borrow", "settle_borrow"}

\* C1: on a freshly initialised group, after every deposit, withdraw, borrow
\* or settle_borrow that completed successfully, the native deposits of
\* every token cover its native borrows.
C1_PoolSolvency ==
    (last.op \in LendOps /\ last.ok) => \A i \in Tokens : I1(mango_group, i)

\* C1's case: a borrow was followed by a later index refresh that accrued
\* interest, and a lending instruction completed after it.
C1_Witness ==
    /\ last.op \in LendOps /\ last.ok
    /\ \E i \in Tokens : /\ mango_group.total_borrows[i] > 0
                         /\ mango_group.indexes[i].borrow > from_num(1)
                         /\ mango_group.indexes[i].last_update = clock

\* ------------------------------------------------- a group that is in use
\* The states of a group some way into its life, each the state the
\* instructions of a script leave when run in order from the freshly
\* initialised group, and some time after.  A script's instruction is signed
\* by the account's owner and supplies the stored open-orders accounts, and
\* to place_order an open-orders account for the order's market.
Fresh ==
    [ g   |-> init_mango_group(0, from_float(11, 10), from_float(12, 10),
                               [i \in Tokens |-> 1000]),
      m   |-> [ma \in MarginAccounts |->
                  init_margin_account(IF ma = "m1" THEN "alice" ELSE "bob")],
      oos |-> [k \in OpenOrdersKeys |-> EmptyOpenOrders] ]

\* One instruction of a script applied to s: committed if it succeeds
Apply(s, c) ==
    LET a       == s.m[c.ma]
        owner   == [key |-> a.owner, is_signer |-> TRUE]
        oracle0 == [i \in Markets |-> 1]
        committed(r) ==
            IF r.ok THEN [g |-> r.g, m |-> [s.m EXCEPT ![c.ma] = r.a], oos |-> r.oos] ELSE s
    IN  committed(IF c.op = "deposit"
                  THEN deposit(s.g, a, owner, c.token, c.quantity, 0) @@ [oos |-> s.oos]
                  ELSE IF c.op = "withdraw"
                  THEN withdraw(s.g, a, owner, a.open_orders, c.token, c.quantity, 0,
                                oracle0, s.oos) @@ [oos |-> s.oos]
                  ELSE IF c.op = "borrow"
                  THEN borrow(s.g, a, owner, a.open_orders, c.token, c.quantity, 0,
                              oracle0, s.oos) @@ [oos |-> s.oos]
                  ELSE place_order(s.g, a, owner, [a.open_orders EXCEPT ![c.token] = c.key],
                                   c.token, c.side, c.quantity, 0, oracle0, s.oos))

RECURSIVE Replay(_, _)
Replay(s, script) ==
    IF script = <<>> THEN s ELSE Replay(Apply(s, Head(script)), Tail(script))

Call(op, ma, token, quantity) == [op |-> op, ma |-> ma, token |-> token, quantity |-> quantity]

Order(ma, market_i, side, spent, key) ==
    [op |-> "place_order", ma |-> ma, token |-> market_i, side |-> side,
     quantity |-> spent, key |-> key]

\* bob lends tokens 0 and 1; alice posts quote collateral, borrows token 0
\* and takes it out: half of token 0's pool is lent
HalfLent ==
    << Call("deposit", "m2", 0, 100), Call("deposit", "m2", 1, 100),
       Call("deposit", "m1", NUM_MARKETS, 100),
       Call("borrow", "m1", 0, 50), Call("withdraw", "m1", 0, 50) >>

\* as HalfLent, and bob takes out what of token 0 is not lent: all of token
\* 0's pool is lent
AllLent == HalfLent \o << Call("withdraw", "m2", 0, 50) >>

\* a pool of a few native units, all lent against little collateral
Dust ==
    << Call("deposit", "m2", 0, 2), Call("deposit", "m2", 1, 100),
       Call("deposit", "m1", NUM_MARKETS, 3),
       Call("borrow", "m1", 0, 2), Call("withdraw", "m1", 0, 2) >>

\* bob lends token 1 and alice borrows it against quote collateral; each has
\* an order resting on market 1, alice's bid in oo1 and bob's ask in oo2
Trading ==
    << Call("deposit", "m2", 1, 100), Call("deposit", "m2", 1, 100),
       Call("deposit", "m2", 0, 100), Call("deposit", "m1", NUM_MARKETS, 100),
       Call("borrow", "m1", 1, 50), Call("withdraw", "m1", 1, 50),
       Order("m1", 1, "Bid", 50, "oo1"), Order("m2", 1, "Ask", 50, "oo2") >>

\* bob lends token 0; alice posts quote collateral, borrows token 0 twice and
\* takes the first half out: she owes 100 of token 0 and holds 50 of it
Netted ==
    << Call("deposit", "m2", 0, 100), Call("deposit", "m2", 1, 100),
       Call("deposit", "m1", NUM_MARKETS, 112),
       Call("borrow", "m1", 0, 50), Call("withdraw", "m1", 0, 50),
       Call("borrow", "m1", 0, 50) >>

Scripts == {HalfLent, AllLent, Dust, Trading, Netted}

InitFunded ==
    /\ clock \in 0 .. (MaxClock - 1)
    /\ \E script \in Scripts : \E s \in {Replay(Fresh, script)} :
          /\ mango_group = s.g
          /\ margin_accounts = s.m
          /\ open_orders = s.oos
    /\ oracle = [i \in Markets |-> 1]
    /\ last = [op |-> "init", ma |-> "m1", signer |-> "alice", is_signer |-> TRUE, accs |-> NoAccs, token |-> 0, quantity |-> 0,
               ok |-> TRUE, err |-> "none"]
    /\ budget = MaxOps

SpecFunded == InitFunded /\ [][Next]_vars

LiquidateOps == {"liquidate", "place_order", "place_and_settle", "settle_funds"}

\* C2: after every liquidate, place_order, place_and_settle or settle_funds
\* that completed successfully, the native deposits of every token of the
\* group cover its native borrows.
C2_SolvencyAfterEveryOperation ==
    (last.op \in LiquidateOps /\ last.ok) => \A i \in Tokens : I1(mango_group, i)

\* The collateral ratio of margin account ma in the current state, at the
\* current prices and with its stored open-orders accounts
Ratio(ma) ==
    get_collateral_ratio(margin_accounts[ma], mango_group, get_prices(mango_group, oracle),
                         open_orders, margin_accounts[ma].open_orders)

\* The same ratio as an instruction entered now computes it, after its index
\* refresh
EntryRatio(ma) ==
    get_collateral_ratio(margin_accounts[ma], update_indexes(mango_group, clock).g,
                         get_prices(mango_group, oracle),
                         open_orders, margin_accounts[ma].open_orders)

\* The ratio of ma in the state a step leads to
RatioAfter(ma) ==
    get_collateral_ratio(margin_accounts'[ma], mango_group', get_prices(mango_group', oracle'),
                         open_orders', margin_accounts'[ma].open_orders)

HasBorrows(ma) == \E i \in Tokens : margin_accounts[ma].borrows[i] > 0

\* C3: a borrow or a withdraw completes successfully only if the account's
\* collateral ratio, computed after the change of its shares, is at least
\* init_coll_ratio.
C3_RatioGate ==
    (last.op \in {"borrow", "withdraw"} /\ last.ok)
        => Ratio(last.ma) >= mango_group.init_coll_ratio

\* C3's case: a borrow completed after a price moved, and left the account
\* with liabilities
C3_Witness ==
    /\ last.op = "borrow" /\ last.ok
    /\ \E m \in Markets : oracle[m] > 1
    /\ HasBorrows(last.ma)

\* C4: a liquidate entered on an account whose collateral ratio, after the
\* index refresh, is at least maint_coll_ratio fails, and the group and every
\* account (shares and owner) are as before.
C4_LiquidationGate ==
    [][ (last'.op = "liquidate" /\ EntryRatio(last'.ma) >= mango_group.maint_coll_ratio)
            => /\ ~last'.ok
               /\ mango_group' = mango_group
               /\ margin_accounts' = margin_accounts ]_vars

\* C4's case: a liquidate of an account with liabilities was rejected at
\* the gate
C4_Witness ==
    /\ last.op = "liquidate" /\ ~last.ok /\ last.err = "maint"
    /\ HasBorrows(last.ma)

\* C5: a liquidate that transfers ownership, or that keeps any of the
\* liquidator's deposits, completed successfully, leaves the account with a
\* collateral ratio of at least init_coll_ratio and owned by the signing
\* liquidator; a liquidate that fails leaves the group and every account as
\* before.
C5_OwnershipTransfer ==
    [][ last'.op = "liquidate"
            => /\ ( \/ margin_accounts'[last'.ma].owner # margin_accounts[last'.ma].owner
                    \/ \E i \in Tokens : margin_accounts'[last'.ma].deposits[i]
                                            > margin_accounts[last'.ma].deposits[i] )
                  => /\ last'.ok
                     /\ margin_accounts'[last'.ma].owner = last'.signer
                     /\ RatioAfter(last'.ma) >= mango_group'.init_coll_ratio
               /\ ~last'.ok => /\ mango_group' = mango_group
                               /\ margin_accounts' = margin_accounts ]_vars

\* C5's case: a liquidate completed and the signing liquidator owns the
\* account, which holds the liquidator's deposit
C5_Witness ==
    /\ last.op = "liquidate" /\ last.ok /\ last.quantity > 0
    /\ margin_accounts[last.ma].owner = last.signer
    /\ last.signer = "liqor"

\* C6: the recorded owner of an account changes only in a liquidate of that
\* account that completes successfully and was entered with the account's
\* collateral ratio below maint_coll_ratio.
C6_OwnerChangesOnlyInLiquidate ==
    [][ \A ma \in MarginAccounts :
            margin_accounts'[ma].owner # margin_accounts[ma].owner
                => /\ last'.op = "liquidate" /\ last'.ok /\ last'.ma = ma
                   /\ EntryRatio(ma) < mango_group.maint_coll_ratio ]_vars

\* C6's case: an account is no longer owned by who created it
C6_Witness ==
    \/ margin_accounts["m1"].owner # "alice"
    \/ margin_accounts["m2"].owner # "bob"

\* C7: a place_order or place_and_settle entered on an account whose
\* collateral ratio is below init_coll_ratio completes successfully only if
\* it increases none of the account's borrow shares.
C7_ReduceOnly ==
    [][ ( /\ last'.op \in {"place_order", "place_and_settle"} /\ last'.ok
          /\ EntryRatio(last'.ma) < mango_group.init_coll_ratio )
            => \A i \in Tokens : margin_accounts'[last'.ma].borrows[i]
                                    <= margin_accounts[last'.ma].borrows[i] ]_vars

\* ------------------------------------------------------ the index refresh
\* update_indexes called again and again, with any timestamps, on groups of
\* any utilisation.  Token 0's shares and deposit index are drawn from
\* bounded sets; token 1 is fully lent and token 2 has no deposits.
IdxShares == {0, from_num(50), from_num(70), from_num(100)}

IdxDepositIndexes == {from_float(3, 4), from_num(1)}

InitIdx ==
    /\ clock = 0
    /\ \/ \E d \in IdxShares, b \in IdxShares, x \in IdxDepositIndexes :
             mango_group = [Fresh.g EXCEPT !.total_deposits = (0 :> d @@ 1 :> from_num(100) @@ 2 :> 0),
                                           !.total_borrows = (0 :> b @@ 1 :> from_num(100) @@ 2 :> 0),
                                           !.indexes[0].deposit = x]
       \* the group that the script Dust and then, with token 0 at the price 2,
       \* the liquidation of alice's account leave: token 0 is fully lent, at a
       \* deposit index that socialize_loss has lowered
       \/ \E s \in {Replay(Fresh, Dust)} :
             mango_group = liquidate(s.g, s.m["m1"], [key |-> "liqor", is_signer |-> TRUE],
                                     s.m["m1"].open_orders,
                                     [i \in Tokens |-> IF i = NUM_MARKETS THEN 100 ELSE 0], 0,
                                     [i \in Markets |-> IF i = 0 THEN 2 ELSE 1], s.oos).g
    /\ margin_accounts = Fresh.m
    /\ open_orders = Fresh.oos
    /\ oracle = [i \in Markets |-> 1]
    /\ last = [op |-> "init", ma |-> "m1", signer |-> "alice", is_signer |-> TRUE, accs |-> NoAccs, token |-> 0, quantity |-> 0,
               ok |-> TRUE, err |-> "none"]
    /\ budget = MaxRefreshes

\* One call of update_indexes with the clock at curr_ts
UpdateIndexes(curr_ts, wraps) ==
    /\ Running
    /\ \E res \in {update_indexes_in(mango_group, curr_ts, wraps)} :
          /\ clock' = curr_ts
          /\ mango_group' = IF res.ok THEN res.g ELSE mango_group
          /\ budget' = budget - 1
          /\ last' = [op |-> "update_indexes", ma |-> "m1", signer |-> "alice", is_signer |-> TRUE, accs |-> NoAccs, token |-> 0,
                      quantity |-> curr_ts, ok |-> res.ok,
                      err |-> IF res.ok THEN "none" ELSE "update_indexes"]
          /\ UNCHANGED <<margin_accounts, open_orders, oracle>>

NextIdx == \E curr_ts \in 0 .. MaxClock, wraps \in BOOLEAN : UpdateIndexes(curr_ts, wraps)

SpecIdx == InitIdx /\ [][NextIdx]_vars

\* C9: a call of update_indexes, with any timestamp and at any utilisation,
\* leaves the borrow index and the deposit index of every token at least
\* what they were before the call.
C9_IndexMonotoneUnderRefresh ==
    [][ last'.op = "update_indexes"
            => \A i \in Tokens :
                  /\ mango_group'.indexes[i].borrow >= mango_group.indexes[i].borrow
                  /\ mango_group'.indexes[i].deposit >= mango_group.indexes[i].deposit ]_vars

\* C9's case: interest accrued on token 0 and then update_indexes ran with a
\* timestamp behind the one before
C9_Witness ==
    /\ last.op = "update_indexes" /\ last.ok
    /\ mango_group.indexes[0].borrow > from_num(1)
    /\ mango_group.indexes[0].deposit > from_num(1)
    /\ mango_group.indexes[0].last_update = 0

\* ------------------------------------------------------ loss socialization
\* The calls of socialize_loss that a liquidation of ma makes from the
\* current state: the state after the index refresh and the settle loop,
\* and what the insolvent branch computes from it.
Settled(ma) == liquidate_settle(update_indexes(mango_group, clock).g, margin_accounts[ma], 0)

Socializes(ma) ==
    /\ Settled(ma).ok
    /\ get_collateral_ratio(Settled(ma).a, Settled(ma).g, get_prices(mango_group, oracle),
                            open_orders, margin_accounts[ma].open_orders) < from_num(1)

\* the native quantity the insolvent branch passes to socialize_loss for
\* token i
TokenReduce(ma, i) ==
    LET s             == Settled(ma)
        prices        == get_prices(mango_group, oracle)
        liabs         == get_total_liabs(s.a, s.g)
        liabs_val     == get_liabs_val(s.a, s.g, prices)
        assets_val    == get_assets_val(s.a, s.g, prices, open_orders,
                                        margin_accounts[ma].open_orders)
        reduction_val == liabs_val - fdiv(assets_val, from_float(101, 100))
    IN  fmul(fdiv(from_num(liabs[i]), liabs_val), reduction_val)

\* the group and the account as the calls of socialize_loss for the tokens
\* below n leave them
RECURSIVE Socialized(_, _)
Socialized(ma, n) ==
    IF n = 0 THEN Settled(ma)
    ELSE LET p == Socialized(ma, n - 1)
         IN  IF ~p.ok THEN p ELSE socialize_loss(p.g, p.a, n - 1, TokenReduce(ma, n - 1))

\* the sum over all accounts of deposit shares times deposit index, with the
\* liquidated account ma as a and the group as g
RECURSIVE SumNativeDeposits(_, _, _, _, _)
SumNativeDeposits(S, ma, g, a, i) ==
    IF S = {} THEN 0
    ELSE LET m == CHOOSE x \in S : TRUE
             shares == IF m = ma THEN a.deposits[i] ELSE margin_accounts[m].deposits[i]
         IN  fmul(shares, g.indexes[i].deposit) + SumNativeDeposits(S \ {m}, ma, g, a, i)

\* What the fixed-point operations of socialize_loss can lose: one unit in
\* the last place in each division and product, scaled by the shares the
\* index multiplies.
RoundingSlack(g, i) ==
    (to_num(g.total_deposits[i]) + 1) * (to_num(checked_ceil(g.indexes[i].deposit)) + 2)
        + to_num(checked_ceil(g.indexes[i].borrow)) + 2 + Cardinality(MarginAccounts)

Near(x, y, slack) == x - y <= slack /\ y - x <= slack

\* C8: each call socialize_loss(asset, v) of a successful liquidation lowers
\* the sum over all accounts of deposit shares times deposit index of the
\* asset by v, and the liquidated account's borrow shares times borrow index
\* by v, up to fixed-point rounding.
C8_SocializationConservation ==
    [][ (last'.op = "liquidate" /\ last'.ok /\ Socializes(last'.ma))
            => \A i \in Tokens :
                  LET ma == last'.ma
                      p  == Socialized(ma, i)
                      q  == Socialized(ma, i + 1)
                      v  == TokenReduce(ma, i)
                  IN  /\ Near(SumNativeDeposits(MarginAccounts, ma, p.g, p.a, i)
                                 - SumNativeDeposits(MarginAccounts, ma, q.g, q.a, i),
                              v, RoundingSlack(p.g, i))
                      /\ Near(fmul(p.a.borrows[i], p.g.indexes[i].borrow)
                                 - fmul(q.a.borrows[i], q.g.indexes[i].borrow),
                              v, RoundingSlack(p.g, i)) ]_vars

\* ------------------------------------------------- the indexes over time
\* C10 as stated: no step of any operation, Liquidate included, lowers the
\* borrow index or the deposit index of any token.
C10_IndexesNeverDecrease ==
    [][ \A i \in Tokens :
          /\ mango_group'.indexes[i].borrow >= mango_group.indexes[i].borrow
          /\ mango_group'.indexes[i].deposit >= mango_group.indexes[i].deposit ]_vars

\* C10 as the code has it: no step lowers the borrow index of any token,
\* and the only step that lowers a deposit index is a successful Liquidate
\* of an account whose ratio after the settle loop is below 1, which
\* socializes a loss.
C10_IndexesDecreaseOnlyBySocialization ==
    [][ \A i \in Tokens :
          /\ mango_group'.indexes[i].borrow >= mango_group.indexes[i].borrow
          /\ mango_group'.indexes[i].deposit < mango_group.indexes[i].deposit
                => (last'.op = "liquidate" /\ last'.ok /\ Socializes(last'.ma)) ]_vars

\* C10's case: a liquidation socialized a loss and left a deposit index
\* below the 1.0 it started at, with the borrow index above it
C10_Witness ==
    /\ last.op = "liquidate" /\ last.ok
    /\ \E i \in Tokens : /\ mango_group.indexes[i].deposit < from_num(1)
                         /\ mango_group.indexes[i].borrow > from_num(1)

\* ------------------------------------------------------------ authorization
\* The instructions a user sends on a margin account
UserOps ==
    {"deposit", "withdraw", "borrow", "settle_borrow", "place_order", "place_and_settle",
     "settle_funds", "cancel_order"}

\* C11: a deposit, withdraw, borrow, settle_borrow, place_order,
\* place_and_settle, settle_funds or cancel_order completes successfully only
\* if its caller signed and is the recorded owner of the margin account.
C11_OwnerAuthorization ==
    (last.op \in UserOps /\ last.ok)
        => /\ last.is_signer
           /\ last.signer = margin_accounts[last.ma].owner

\* The instructions that take open-orders accounts
OpenOrdersOps ==
    {"withdraw", "borrow", "liquidate", "place_order", "place_and_settle", "settle_funds",
     "cancel_order"}

\* C12: a withdraw, borrow, liquidate, place_order, place_and_settle,
\* settle_funds or cancel_order completes successfully only if every
\* open-orders account supplied to it is the one the margin account stores
\* for that market (after a first order on the market stored it).
C12_OpenOrdersMatch ==
    (last.op \in OpenOrdersOps /\ last.ok)
        => \A i \in Markets :
              last.accs[i] # "none" => last.accs[i] = margin_accounts[last.ma].open_orders[i]

\* ------------------------------------------------ open-orders references
\* C13: every margin account is created with the default key as its
\* open-orders reference of every market; a reference changes only from the
\* default key, in a place_order or place_and_settle on that account that
\* completes successfully, to the account supplied for the market; a
\* reference that is set is changed by no later step, a liquidate that
\* transfers the account included.
C13_OpenOrdersSetOnce ==
    /\ \A ma \in MarginAccounts, i \in Markets : Fresh.m[ma].open_orders[i] = DefaultKey
    /\ [][ \A ma \in MarginAccounts, i \in Markets :
              margin_accounts'[ma].open_orders[i] # margin_accounts[ma].open_orders[i]
                  => /\ margin_accounts[ma].open_orders[i] = DefaultKey
                     /\ last'.op \in {"place_order", "place_and_settle"}
                     /\ last'.ok /\ last'.ma = ma
                     /\ margin_accounts'[ma].open_orders[i] = last'.accs[i] ]_vars

\* C13's case: a liquidate transferred an account that keeps the reference
\* its first order stored
C13_Witness ==
    /\ last.op = "liquidate" /\ last.ok
    /\ margin_accounts[last.ma].owner = "liqor"
    /\ \E i \in Markets : margin_accounts[last.ma].open_orders[i] # DefaultKey

\* ------------------------------------------------- accounts that owe nothing
\* The liabilities value of margin account ma in the current state, and as
\* an instruction entered now computes it, after its index refresh
LiabsVal(ma) ==
    get_liabs_val(margin_accounts[ma], mango_group, get_prices(mango_group, oracle))

EntryLiabsVal(ma) ==
    get_liabs_val(margin_accounts[ma], update_indexes(mango_group, clock).g,
                  get_prices(mango_group, oracle))

\* C14: the collateral ratio of an account whose liabilities value is zero
\* is the maximum representable value, computed without a division, and is
\* at least init_coll_ratio; a withdraw on such an account is never rejected
\* for its collateral ratio, and a liquidate entered on such an account
\* fails.
C14_ZeroLiabilities ==
    /\ [](\A ma \in MarginAccounts :
             LiabsVal(ma) = 0 => /\ Ratio(ma) = U64F64_MAX
                                 /\ Ratio(ma) >= mango_group.init_coll_ratio)
    /\ [][ EntryLiabsVal(last'.ma) = 0
              => /\ last'.op = "liquidate" => ~last'.ok
                 /\ last'.op = "withdraw" => last'.err # "coll_ratio" ]_vars

\* C14's case: a liquidate of an account that owes nothing was rejected at
\* the gate
C14_Witness ==
    /\ last.op = "liquidate" /\ ~last.ok /\ last.err = "maint"
    /\ LiabsVal(last.ma) = 0
    /\ \E i \in Tokens : margin_accounts[last.ma].deposits[i] > 0

\* ------------------------------------------------------------- withdrawals
\* The native deposit of token i that an instruction entered now on margin
\* account ma computes, after its index refresh
EntryNativeDeposit(ma, i) ==
    get_native_deposit(margin_accounts[ma], update_indexes(mango_group, clock).g.indexes[i], i)

\* C15: a withdraw of quantity q of a token completes successfully only if
\* the account's native deposit of the token is at least q, and then changes
\* no borrow shares, of any account or of the group.
C15_WithdrawWithinDeposit ==
    [][ (last'.op = "withdraw" /\ last'.ok)
            => /\ EntryNativeDeposit(last'.ma, last'.token) >= last'.quantity
               /\ \A ma \in MarginAccounts :
                     margin_accounts'[ma].borrows = margin_accounts[ma].borrows
               /\ mango_group'.total_borrows = mango_group.total_borrows ]_vars

\* C15's case: an account that owes a token withdrew, after interest accrued
C15_Witness ==
    /\ last.op = "withdraw" /\ last.ok
    /\ HasBorrows(last.ma)
    /\ \E i \in Tokens : mango_group.indexes[i].deposit > from_num(1)

\* ----------------------------------------------------------- borrow limits
\* C16: after a borrow of a token that completed successfully, and after a
\* place_order or place_and_settle that completed successfully and increased
\* the account's borrow shares of the token it paid with, the account's
\* native borrow of that token is at most the token's borrow limit.
C16_BorrowLimit ==
    [][ ( /\ last'.ok
          /\ \/ last'.op = "borrow"
             \/ /\ last'.op \in {"place_order", "place_and_settle"}
                /\ margin_accounts'[last'.ma].borrows[last'.token]
                      > margin_accounts[last'.ma].borrows[last'.token] )
            => get_native_borrow(margin_accounts'[last'.ma],
                                 mango_group'.indexes[last'.token], last'.token)
                  <= mango_group'.borrow_limits[last'.token] ]_vars

\* C16's case: a borrow completed that brought the account's native borrow
\* to the token's borrow limit, lowered before
C16_Witness ==
    /\ last.op = "borrow" /\ last.ok
    /\ mango_group.borrow_limits[last.token] = 100
    /\ get_native_borrow(margin_accounts[last.ma], mango_group.indexes[last.token], last.token)
          = mango_group.borrow_limits[last.token]

RECURSIVE SumShares(_, _)
SumShares(S, f) ==
    IF S = {} THEN 0
    ELSE LET ma == CHOOSE x \in S : TRUE
         IN  f[ma] + SumShares(S \ {ma}, f)

\* C18: in every reachable state and for every token, the group's
\* total_deposits is the sum of the deposit shares of the group's margin
\* accounts, and its total_borrows the sum of their borrow shares.
C18_AggregateConsistency ==
    \A i \in Tokens :
        /\ mango_group.total_deposits[i]
              = SumShares(MarginAccounts, [ma \in MarginAccounts |-> margin_accounts[ma].deposits[i]])
        /\ mango_group.total_borrows[i]
              = SumShares(MarginAccounts, [ma \in MarginAccounts |-> margin_accounts[ma].borrows[i]])

\* C18's case: a liquidate wrote off borrow shares by socialize_loss, on a
\* group where both accounts hold shares
C18_Witness ==
    /\ last.op = "liquidate" /\ last.ok
    /\ \E i \in Tokens : /\ mango_group.indexes[i].deposit < from_num(1)
                         /\ mango_group.total_borrows[i] > 0
    /\ \A ma \in MarginAccounts : \E i \in Tokens : margin_accounts[ma].deposits[i] > 0

\* ------------------------------------------------- the worked scenarios
\* The steps of a behaviour of the scenarios
MaxScenarioOps == 6

\* BASE is token 0 and QUOTE the quote currency, the last token.  The oracle
\* reports whole numbers, so the price 2.5 needs a decimal: QUOTE has one
\* decimal and the oracle one, BASE none.  1000 QUOTE are 10000 native units,
\* 500 BASE are 500, and a median of 10 is the price 1.0, of 25 the price 2.5.
ScenarioFresh ==
    [Fresh EXCEPT !.g.mint_decimals = [i \in Tokens |-> IF i = NUM_MARKETS THEN 1 ELSE 0],
                  !.g.oracle_decimals = [i \in Markets |-> 1]]

\* bob lends 1000 BASE, and 1000 of token 1: the groups of the program have
\* NUM_TOKENS tokens, and the one between BASE and QUOTE takes no other part
ScenarioLender == << Call("deposit", "m2", 0, 1000), Call("deposit", "m2", 1, 1000) >>

InitScenario ==
    /\ clock = 0
    /\ \E s \in {Replay(ScenarioFresh, ScenarioLender)} :
          /\ mango_group = s.g
          /\ margin_accounts = s.m
          /\ open_orders = s.oos
    /\ oracle = [i \in Markets |-> 10]
    /\ last = [op |-> "init", ma |-> "m1", signer |-> "alice", is_signer |-> TRUE, accs |-> NoAccs, token |-> 0, quantity |-> 0,
               ok |-> TRUE, err |-> "none"]
    /\ budget = MaxScenarioOps

\* what the liquidator of the scenario offers: nothing, or 200 QUOTE
ScenarioLiqorDeposits ==
    { [i \in Tokens |-> 0], [i \in Tokens |-> IF i = NUM_MARKETS THEN 2000 ELSE 0] }

\* The calls of the scenario's account with quantity q of token t: the
\* well-formed one and each ill-formed one
ScenarioCalls(t, q) ==
    {[signer |-> Owner("m1"), accs |-> Stored("m1"), token |-> t, quantity |-> q]}
    \cup {[signer |-> f.signer, accs |-> f.accs, token |-> t, quantity |-> q] :
            f \in Faulty("m1")}

\* The account of the scenario deposits 1000 QUOTE once, borrows 500 BASE
\* once and may take them out; the price of BASE moves between 1.0 and 2.5;
\* a liquidator may step in.  The clock stands still: the indexes stay where
\* the instructions leave them.
NextScenario ==
    \/ /\ mango_group.total_deposits[NUM_MARKETS] = 0
       /\ \E c \in ScenarioCalls(NUM_MARKETS, 10000) :
             Deposit("m1", c.signer, c.token, c.quantity)
    \/ /\ mango_group.total_borrows[0] = 0
       /\ \E c \in ScenarioCalls(0, 500) :
             Borrow("m1", c.signer, c.accs, c.token, c.quantity)
    \/ \E c \in ScenarioCalls(0, 500) :
          Withdraw("m1", c.signer, c.accs, c.token, c.quantity)
    \/ \E p \in {10, 25} : OracleUpdate(0, p)
    \/ \E dq \in ScenarioLiqorDeposits :
          \/ Liquidate("m1", [key |-> "liqor", is_signer |-> TRUE], Stored("m1"), dq)
          \/ \E f \in Faulty("m1") : Liquidate("m1", f.signer, f.accs, dq)

SpecScenario == InitScenario /\ [][NextScenario]_vars

\* The position of Scenario A: the account holds 1000 QUOTE of deposits and
\* owes 500 BASE
ScenarioPosition ==
    /\ get_native_deposit(margin_accounts["m1"], mango_group.indexes[NUM_MARKETS], NUM_MARKETS) = 10000
    /\ get_native_borrow(margin_accounts["m1"], mango_group.indexes[0], 0) = 500

\* What Scenario A says of the ratio r: 2.0 at the price 1.0 of BASE, at
\* least the initial and the maintenance ratio; 0.8, to the last fractional
\* bit, at the price 2.5, below the maintenance ratio and below 1
ScenarioRatios(r) ==
    /\ oracle[0] = 10 => /\ r = from_num(2)
                         /\ r >= mango_group.init_coll_ratio
                         /\ r >= mango_group.maint_coll_ratio
    /\ oracle[0] = 25 => /\ Near(r, from_float(8, 10), 1)
                         /\ r < mango_group.maint_coll_ratio
                         /\ r < from_num(1)

\* C19, as stated: in the group with initial ratio 1.20 and maintenance
\* ratio 1.10, the account that has deposited 1000 QUOTE and borrowed 500
\* BASE has the collateral ratio 2.0 at the BASE price 1.0, and 0.8 at the
\* price 2.5, where it is liquidatable and insolvent.
C19_ScenarioA == ScenarioPosition => ScenarioRatios(Ratio("m1"))

\* C19, amended: the account that has deposited 1000 QUOTE, borrowed 500 BASE
\* and taken the borrowed 500 BASE out has the collateral ratio 2.0 at the
\* BASE price 1.0, and 0.8 at the price 2.5, where it is liquidatable and
\* insolvent.  Until they are taken out, the borrowed 500 BASE are a deposit
\* of the account and count among its assets.
C19_ScenarioAWithdrawn ==
    (/\ ScenarioPosition
     /\ get_native_deposit(margin_accounts["m1"], mango_group.indexes[0], 0) = 0)
        => ScenarioRatios(Ratio("m1"))

\* the price of BASE has risen to 2.5 on the account that deposited, borrowed
\* and took the borrowed BASE out
C19_Witness ==
    /\ last.op = "oracle" /\ oracle[0] = 25
    /\ ScenarioPosition
    /\ margin_accounts["m1"].deposits[0] = 0
    /\ margin_accounts["m1"].owner = "alice"
    /\ Ratio("m1") < from_num(1)
    /\ mango_group.init_coll_ratio = from_float(12, 10)
    /\ mango_group.maint_coll_ratio = from_float(11, 10)

\* reduction_val as the insolvent branch of a liquidation of ma computes it
\* from the current state: the value of the liabilities less the value of
\* the assets over 1.01, in native units of the quote currency
ReductionVal(ma) ==
    LET s      == Settled(ma)
        prices == get_prices(mango_group, oracle)
    IN  get_liabs_val(s.a, s.g, prices)
            - fdiv(get_assets_val(s.a, s.g, prices, open_orders,
                                  margin_accounts[ma].open_orders),
                   from_float(101, 100))

\* token i's share of reduction_val, in proportion to its share of the value
\* of the liabilities
ShareOfReduction(ma, i) ==
    LET s      == Settled(ma)
        prices == get_prices(mango_group, oracle)
    IN  fmul(ReductionVal(ma),
             fdiv(fmul(fmul(s.g.indexes[i].borrow, s.a.borrows[i]), prices[i]),
                  get_liabs_val(s.a, s.g, prices)))

\* an amount of native units of the quote currency, in whole units of it
InQuoteUnits(v) == fdiv(v, from_num(10 ^ mango_group.mint_decimals[NUM_MARKETS]))

\* the deposit index of token i after the settle loop of a liquidation of
\* ma, shrunk by the fraction v over the token's total native deposit
ShrunkDepositIndex(ma, i, v) ==
    LET g     == Settled(ma).g
        index == g.indexes[i].deposit
    IN  index - fmul(fdiv(v, from_num(get_total_native_deposit(g, i))), index)

\* the insolvent state of Scenario A: 1000 QUOTE of deposits, a debt of 500
\* BASE and nothing else, at the BASE price 2.5
ScenarioInsolvent ==
    /\ ScenarioPosition
    /\ margin_accounts["m1"].deposits[0] = 0
    /\ oracle[0] = 25

C21_DepositShares ==
    [][ /\ (last'.op = "deposit" /\ last'.ok)
            => LET i == last'.token
                   d == mango_group'.indexes[i].deposit
               IN  /\ margin_accounts'[last'.ma].deposits[i]
                         = margin_accounts[last'.ma].deposits[i] + fdiv(from_num(last'.quantity), d)
                   /\ mango_group'.total_deposits[i]
                         = mango_group.total_deposits[i] + fdiv(from_num(last'.quantity), d)
        /\ \A ma \in MarginAccounts \ {last'.ma} : \A i \in Tokens :
              /\ margin_accounts'[ma].deposits[i] = margin_accounts[ma].deposits[i]
              /\ get_native_deposit(margin_accounts'[ma], mango_group'.indexes[i], i)
                    = to_num(fmul(margin_accounts[ma].deposits[i],
                                  mango_group'.indexes[i].deposit)) ]_vars

\* alice has deposited at an index above 1.0; bob's 100 shares, bought with
\* 100 native units at the index 1.0, are now worth more than 100
C21_Witness ==
    /\ last.op = "deposit" /\ last.ok /\ last.ma = "m1"
    /\ mango_group.indexes[last.token].deposit > from_num(1)
    /\ margin_accounts["m2"].deposits[last.token] = from_num(100)
    /\ get_native_deposit(margin_accounts["m2"], mango_group.indexes[last.token], last.token) > 100

\* ---------------------------------------------- the steps of a liquidation
\* the collateral ratio of ma after the index refresh and the settle loop of
\* a liquidation entered in the current state
SettledRatio(ma) ==
    get_collateral_ratio(Settled(ma).a, Settled(ma).g, get_prices(mango_group, oracle),
                         open_orders, margin_accounts[ma].open_orders)

\* C22: a successful liquidate of an account whose ratio after the settle
\* loop is at least maint_coll_ratio has only settled borrows: the indexes
\* are those of the refresh, no shares are added to the account or the
\* group whatever the liquidator offered, some deposit is netted against a
\* borrow, and the owner is unchanged.
C22_StopsAfterSettle ==
    [][ (/\ last'.op = "liquidate" /\ last'.ok
         /\ Settled(last'.ma).ok
         /\ SettledRatio(last'.ma) >= mango_group.maint_coll_ratio)
            => /\ mango_group'.indexes = update_indexes(mango_group, clock).g.indexes
               /\ margin_accounts'[last'.ma].owner = margin_accounts[last'.ma].owner
               /\ \A i \in Tokens :
                     /\ margin_accounts'[last'.ma].deposits[i] <= margin_accounts[last'.ma].deposits[i]
                     /\ margin_accounts'[last'.ma].borrows[i] <= margin_accounts[last'.ma].borrows[i]
                     /\ mango_group'.total_deposits[i] <= mango_group.total_deposits[i]
                     /\ mango_group'.total_borrows[i] <= mango_group.total_borrows[i]
               /\ \A ma \in MarginAccounts \ {last'.ma} :
                     margin_accounts'[ma] = margin_accounts[ma] ]_vars

\* a liquidator that offered quote currency has liquidated alice's account,
\* which is still alice's and holds the quote currency it held
C22_Witness ==
    /\ last.op = "liquidate" /\ last.ok /\ last.quantity > 0
    /\ margin_accounts[last.ma].owner = "alice"
    /\ margin_accounts[last.ma].deposits[0] = 0
    /\ margin_accounts[last.ma].borrows[0] > 0
    /\ Ratio(last.ma) >= mango_group.maint_coll_ratio
    /\ Ratio(last.ma) < mango_group.init_coll_ratio

\* a step has lowered a deposit index below the one the refresh leaves, or
\* taken borrow shares off ma beyond those the settle loop nets against its
\* deposits
WritesOff(ma) ==
    \E i \in Tokens :
        \/ mango_group'.indexes[i].deposit
              # update_indexes(mango_group, clock).g.indexes[i].deposit
        \/ margin_accounts'[ma].borrows[i] < Settled(ma).a.borrows[i]

\* C23: a successful liquidate changes a deposit index, or writes off borrow
\* shares with no matching deposit shares, if and only if the account's
\* ratio after the settle loop is below 1; at a ratio of 1 or more after the
\* settle loop every deposit index is the one the refresh leaves.
C23_SocializesIffInsolvent ==
    [][ (last'.op = "liquidate" /\ last'.ok /\ Settled(last'.ma).ok)
            => /\ WritesOff(last'.ma) <=> SettledRatio(last'.ma) < from_num(1)
               /\ SettledRatio(last'.ma) >= from_num(1)
                    => \A i \in Tokens :
                          mango_group'.indexes[i].deposit
                             = update_indexes(mango_group, clock).g.indexes[i].deposit ]_vars

\* ------------------------------------------------------ debts of less than
\* one native unit
\* The steps of a behaviour that repays a debt down to a fraction of a unit
MaxDustOps == 6

\* HalfLent, one tick on: alice owes 50 of token 0 with interest running
InitDust ==
    /\ clock = 1
    /\ \E s \in {Replay(Fresh, HalfLent)} :
          /\ mango_group = s.g
          /\ margin_accounts = s.m
          /\ open_orders = s.oos
    /\ oracle = [i \in Markets |-> 1]
    /\ last = [op |-> "init", ma |-> "m1", signer |-> "alice", is_signer |-> TRUE, accs |-> NoAccs, token |-> 0, quantity |-> 0,
               ok |-> TRUE, err |-> "none"]
    /\ budget = MaxDustOps

\* alice brings token 0, settles her borrow, takes out what she holds; the
\* price of token 0 moves; a liquidator may step in
NextDust ==
    \/ \E c \in Calls("m1", {0}, {100}) : Deposit("m1", c.signer, c.token, c.quantity)
    \/ \E c \in Calls("m1", {0}, {50}) : SettleBorrow("m1", c.signer, c.token, c.quantity)
    \/ \E c \in Calls("m1", Tokens, {50, 99}) :
          Withdraw("m1", c.signer, c.accs, c.token, c.quantity)
    \/ \E p \in OraclePrices : OracleUpdate(0, p)
    \/ \E dq \in LiqorDeposits :
          \/ Liquidate("m1", [key |-> "liqor", is_signer |-> TRUE], Stored("m1"), dq)
          \/ \E f \in Faulty("m1") : Liquidate("m1", f.signer, f.accs, dq)

SpecDust == InitDust /\ [][NextDust]_vars

\* the collateral ratio of ma after the calls of socialize_loss of a
\* liquidation entered in the current state, before the liquidator's
\* deposits
SocializedRatio(ma) ==
    get_collateral_ratio(Socialized(ma, NUM_TOKENS).a, Socialized(ma, NUM_TOKENS).g,
                         get_prices(mango_group, oracle),
                         open_orders, margin_accounts[ma].open_orders)

\* C24: in a successful liquidate of an account whose ratio after the settle
\* loop is below 1, the calls of socialize_loss remove liabilities worth
\* reduction_val = liabs_val - assets_val / 1.01 in all, and leave the account,
\* before the liquidator's deposits, at a collateral ratio of at least 1.
C24_SocializationRestoresRatio ==
    [][ (last'.op = "liquidate" /\ last'.ok /\ Socializes(last'.ma))
            => LET ma     == last'.ma
                   prices == get_prices(mango_group, oracle)
                   s      == Settled(ma)
                   z      == Socialized(ma, NUM_TOKENS)
               IN  /\ SocializedRatio(ma) >= from_num(1)
                   /\ get_liabs_val(s.a, s.g, prices) - get_liabs_val(z.a, z.g, prices)
                         <= ReductionVal(ma) ]_vars

\* ---------------------------------------------------- settling a borrow
\* the native quantity a settle_borrow of quantity on token i of ma settles,
\* entered in the current state: the least of quantity, the account's native
\* borrow and its native deposit, at the refreshed indexes
SettleQuantity(ma, i, quantity) ==
    LET index == update_indexes(mango_group, clock).g.indexes[i]
    IN  Min(Min(quantity, get_native_borrow(margin_accounts[ma], index, i)),
            get_native_deposit(margin_accounts[ma], index, i))

\* C25: a successful settle_borrow of an amount on a token settles
\* q = min(amount, native borrow, native deposit) of it: the deposit shares of
\* the account and of the group fall by q / deposit index, their borrow
\* shares by q / borrow index, and no other token, no other account, no
\* index beyond the refresh and no owner changes.
C25_SettleBorrowExact ==
    [][ (last'.op = "settle_borrow" /\ last'.ok)
            => LET ma    == last'.ma
                   i     == last'.token
                   index == update_indexes(mango_group, clock).g.indexes[i]
                   q     == SettleQuantity(ma, i, last'.quantity)
                   dep   == fdiv(from_num(q), index.deposit)
                   borr  == fdiv(from_num(q), index.borrow)
               IN  /\ margin_accounts'[ma].deposits[i] = margin_accounts[ma].deposits[i] - dep
                   /\ mango_group'.total_deposits[i] = mango_group.total_deposits[i] - dep
                   /\ margin_accounts'[ma].borrows[i] = margin_accounts[ma].borrows[i] - borr
                   /\ mango_group'.total_borrows[i] = mango_group.total_borrows[i] - borr
                   /\ \A j \in Tokens \ {i} :
                         /\ margin_accounts'[ma].deposits[j] = margin_accounts[ma].deposits[j]
                         /\ margin_accounts'[ma].borrows[j] = margin_accounts[ma].borrows[j]
                         /\ mango_group'.total_deposits[j] = mango_group.total_deposits[j]
                         /\ mango_group'.total_borrows[j] = mango_group.total_borrows[j]
                   /\ \A m \in MarginAccounts \ {ma} : margin_accounts'[m] = margin_accounts[m]
                   /\ mango_group'.indexes = update_indexes(mango_group, clock).g.indexes
                   /\ margin_accounts'[ma].owner = margin_accounts[ma].owner
                   /\ margin_accounts'[ma].open_orders = margin_accounts[ma].open_orders ]_vars

\* a settle_borrow at indexes above 1.0 has used up the account's whole
\* native deposit of the token and left part of the borrow
C25_Witness ==
    /\ last.op = "settle_borrow" /\ last.ok
    /\ mango_group.indexes[last.token].borrow > mango_group.indexes[last.token].deposit
    /\ mango_group.indexes[last.token].deposit > from_num(1)
    /\ get_native_deposit(margin_accounts[last.ma], mango_group.indexes[last.token], last.token) = 0
    /\ get_native_borrow(margin_accounts[last.ma], mango_group.indexes[last.token], last.token) > 0
    /\ get_native_borrow(margin_accounts[last.ma], mango_group.indexes[last.token], last.token) < last.quantity

\* assets_val - liabs_val of account a in group g, at the current prices
NetEquity(a, g) ==
    get_assets_val(a, g, get_prices(mango_group, oracle), open_orders, a.open_orders)
        - get_liabs_val(a, g, get_prices(mango_group, oracle))

\* C26: a successful settle_borrow leaves assets_val - liabs_val of the
\* account, taken at the refreshed indexes and the current prices, where it
\* was, up to the truncation of the two quotients: less than one unit in the
\* last place of the shares each, times index and price.
C26_SettleBorrowKeepsEquity ==
    [][ (last'.op = "settle_borrow" /\ last'.ok)
            => Near(NetEquity(margin_accounts[last'.ma], update_indexes(mango_group, clock).g),
                    NetEquity(margin_accounts'[last'.ma], mango_group'),
                    4 * (to_num(get_prices(mango_group, oracle)[last'.token]) + 1)) ]_vars

\* a settle_borrow has netted part of a debt of 100 of token 0, at a price
\* of token 0 other than 1 and indexes that have moved apart
C26_Witness ==
    /\ last.op = "settle_borrow" /\ last.ok /\ last.token = 0
    /\ oracle[0] > 1
    /\ mango_group.indexes[0].borrow > mango_group.indexes[0].deposit
    /\ margin_accounts[last.ma].borrows[0] > from_num(50)
    /\ margin_accounts[last.ma].borrows[0] < from_num(100)
    /\ margin_accounts[last.ma].deposits[0] < from_num(1)

\* ------------------------------------------------- the paired primitives
MaxLedgerOps == 2

\* alice and bob hold shares of token 0 that add up to the group's totals,
\* bob's being a few or nearly all that U64F64 can hold
InitLedger ==
    /\ clock = 0
    /\ \E d1 \in {0, 2}, d2 \in {1, U64F64_MAX - 3}, b1 \in {0, 2}, b2 \in {1, U64F64_MAX - 3} :
          /\ mango_group = [Fresh.g EXCEPT !.total_deposits[0] = d1 + d2,
                                           !.total_borrows[0] = b1 + b2]
          /\ margin_accounts =
                 [Fresh.m EXCEPT !["m1"].deposits[0] = d1, !["m1"].borrows[0] = b1,
                                 !["m2"].deposits[0] = d2, !["m2"].borrows[0] = b2]
    /\ open_orders = Fresh.oos
    /\ oracle = [i \in Markets |-> 1]
    /\ last = [op |-> "init", ma |-> "m1", signer |-> "alice", is_signer |-> TRUE, accs |-> NoAccs, token |-> 0, quantity |-> 0,
               ok |-> TRUE, err |-> "none"]
    /\ budget = MaxLedgerOps

\* One call of a paired primitive on alice's account and the group: what the
\* call wrote to the two records stays in them, whether it returned Ok or Err
LedgerCall(op, quantity, res) ==
    /\ Running
    /\ mango_group' = res.g
    /\ margin_accounts' = [margin_accounts EXCEPT !["m1"] = res.a]
    /\ last' = [op |-> op, ma |-> "m1", signer |-> "alice", is_signer |-> TRUE, accs |-> NoAccs,
                token |-> 0, quantity |-> quantity, ok |-> res.ok,
                err |-> IF res.ok THEN "none" ELSE "arith"]
    /\ budget' = budget - 1
    /\ UNCHANGED <<open_orders, oracle, clock>>

NextLedger ==
    \E v \in {1, 2, 3} :
        \/ LedgerCall("checked_add_deposit", v,
                      checked_add_deposit(mango_group, margin_accounts["m1"], 0, v))
        \/ LedgerCall("checked_sub_deposit", v,
                      checked_sub_deposit(mango_group, margin_accounts["m1"], 0, v))
        \/ LedgerCall("checked_add_borrow", v,
                      checked_add_borrow(mango_group, margin_accounts["m1"], 0, v))
        \/ LedgerCall("checked_sub_borrow", v,
                      checked_sub_borrow(mango_group, margin_accounts["m1"], 0, v))

SpecLedger == InitLedger /\ [][NextLedger]_vars

\* C27: a call of a paired primitive either changes the account's shares and
\* the group's total by the quantity, or returns an error and leaves both the
\* account's shares and the group's total as they were.
C27_PairedAllOrNothing ==
    [][ LET op   == last'.op
            v    == IF op \in {"checked_add_deposit", "checked_add_borrow"}
                    THEN last'.quantity ELSE 0 - last'.quantity
            dv   == IF op \in {"checked_add_deposit", "checked_sub_deposit"}
                    THEN IF last'.ok THEN v ELSE 0 ELSE 0
            bv   == IF op \in {"checked_add_borrow", "checked_sub_borrow"}
                    THEN IF last'.ok THEN v ELSE 0 ELSE 0
        IN  /\ margin_accounts'["m1"].deposits[0] = margin_accounts["m1"].deposits[0] + dv
            /\ mango_group'.total_deposits[0] = mango_group.total_deposits[0] + dv
            /\ margin_accounts'["m1"].borrows[0] = margin_accounts["m1"].borrows[0] + bv
            /\ mango_group'.total_borrows[0] = mango_group.total_borrows[0] + bv ]_vars

\* ------------------------------------------------------- what a borrow adds
\* C28: a successful borrow of q native units of token i adds q / d deposit
\* shares and q / b borrow shares of i to the account and to the group, d and
\* b the indexes the instruction's refresh leaves; the account's other
\* shares, its owner and every other account stay as they were.
C28_BorrowShares ==
    [][ (last'.op = "borrow" /\ last'.ok)
            => LET ma == last'.ma
                   i  == last'.token
                   d  == fdiv(from_num(last'.quantity), mango_group'.indexes[i].deposit)
                   b  == fdiv(from_num(last'.quantity), mango_group'.indexes[i].borrow)
               IN  /\ margin_accounts'[ma] = [margin_accounts[ma] EXCEPT !.deposits[i] = @ + d,
                                                                        !.borrows[i] = @ + b]
                   /\ mango_group'.total_deposits
                         = [mango_group.total_deposits EXCEPT ![i] = @ + d]
                   /\ mango_group'.total_borrows
                         = [mango_group.total_borrows EXCEPT ![i] = @ + b]
                   /\ \A other \in MarginAccounts \ {ma} :
                         margin_accounts'[other] = margin_accounts[other] ]_vars

\* a borrow went through at a borrow index above the deposit index, so that
\* the two entries differ, on an account that held shares of another token
C28_Witness ==
    /\ last.op = "borrow" /\ last.ok
    /\ mango_group.indexes[last.token].borrow > mango_group.indexes[last.token].deposit
    /\ fdiv(from_num(last.quantity), mango_group.indexes[last.token].deposit)
          > fdiv(from_num(last.quantity), mango_group.indexes[last.token].borrow)
    /\ \E j \in Tokens \ {last.token} : margin_accounts[last.ma].deposits[j] > 0

C30_RefreshIdempotent ==
    [][ /\ (last'.op = "update_indexes" /\ last'.ok)
            => \A wraps \in BOOLEAN :
                  /\ update_indexes_in(mango_group', clock', wraps).ok
                  /\ update_indexes_in(mango_group', clock', wraps).g = mango_group'
        /\ (/\ last.op = "update_indexes" /\ last.ok
            /\ last'.op = "update_indexes" /\ clock' = clock)
            => /\ last'.ok
               /\ mango_group'.indexes = mango_group.indexes ]_vars

\* interest has accrued on token 0 in a call at a timestamp after 0, and a
\* further call was made
C30_Witness ==
    /\ last.op = "update_indexes" /\ last.ok
    /\ budget <= MaxRefreshes - 2
    /\ clock > 0
    /\ mango_group.indexes[0].last_update = clock
    /\ mango_group.indexes[0].borrow > from_num(1)

\* ------------------------------------------- a token nobody has deposited
\* C31: in a call of update_indexes, with any timestamp, the iteration of a
\* token whose total deposit shares are zero does not fail and leaves the
\* token's borrow index, deposit index and last_update as they were.
C31_ZeroDepositsSkipped ==
    [][ last'.op = "update_indexes"
            => \A i \in Tokens :
                  mango_group.total_deposits[i] = 0
                  => /\ \A wraps \in BOOLEAN :
                           /\ update_index(mango_group, i, clock', wraps).ok
                           /\ update_index(mango_group, i, clock', wraps).index
                                 = mango_group.indexes[i]
                     /\ mango_group'.indexes[i] = mango_group.indexes[i] ]_vars

\* a call at a timestamp after 0 refreshed token 1 and left token 2, which
\* has no deposits, at its last_update of 0
C31_Witness ==
    /\ last.op = "update_indexes" /\ last.ok
    /\ clock > 0
    /\ mango_group.total_deposits[2] = 0
    /\ mango_group.indexes[2].last_update = 0
    /\ mango_group.indexes[1].last_update = clock

\* ------------------------------------------------ last_update over time
\* C32: whatever timestamps the calls are given, one behind the stored
\* last_update included, no step lowers the last_update of any token.
C32_LastUpdateNeverDecreases ==
    [][ \A i \in Tokens :
           mango_group'.indexes[i].last_update >= mango_group.indexes[i].last_update ]_vars

\* ------------------------------------------------------- the interest rate
\* C33: get_interest_rate returns the maximum rate where the native deposits
\* do not exceed the native borrows, zero deposits included; otherwise, at
\* utilisation u, it returns 0 at u = 0, optimal_r * u / optimal_util up to
\* optimal_util and optimal_r + (max_r - optimal_r) * (u - optimal_util) /
\* (1 - optimal_util) above it, each within two units of the last fractional
\* bit, so that the two pieces meet in optimal_r at optimal_util and the upper
\* one ends in max_r at u = 1; and more borrow shares never give a lower rate.
C33_InterestRateCurve ==
    \A i \in Tokens :
       LET optimal_util    == from_float(7, 10)
           optimal_r       == fdiv(from_float(1, 10), from_num(TicksPerYear))
           max_r           == fdiv(from_num(1), from_num(TicksPerYear))
           native_deposits == fmul(mango_group.indexes[i].deposit, mango_group.total_deposits[i])
           native_borrows  == fmul(mango_group.indexes[i].borrow, mango_group.total_borrows[i])
           u               == fdiv(native_borrows, native_deposits)
           rate            == get_interest_rate(mango_group, i)
       IN  /\ native_deposits <= native_borrows => rate = max_r
           /\ native_deposits > native_borrows
                 => /\ u = 0 => rate = 0
                    /\ rate <= max_r
                    /\ u <= optimal_util
                          => /\ rate <= optimal_r
                             /\ Near(rate * optimal_util, optimal_r * u, 2 * optimal_util)
                    /\ u = optimal_util => Near(rate, optimal_r, 2)
                    /\ u > optimal_util
                          => /\ rate >= optimal_r
                             /\ Near((rate - optimal_r) * (from_num(1) - optimal_util),
                                     (max_r - optimal_r) * (u - optimal_util),
                                     2 * (from_num(1) - optimal_util))
           /\ \A b \in IdxShares :
                 b >= mango_group.total_borrows[i]
                 => get_interest_rate([mango_group EXCEPT !.total_borrows[i] = b], i) >= rate

\* after a refresh token 0 is used above optimal_util and below 1, at a rate
\* between the optimal and the maximum rate, and token 1, fully lent, is at
\* the maximum rate
C33_Witness ==
    /\ last.op = "update_indexes" /\ last.ok
    /\ fmul(mango_group.indexes[0].deposit, mango_group.total_deposits[0])
          > fmul(mango_group.indexes[0].borrow, mango_group.total_borrows[0])
    /\ fdiv(fmul(mango_group.indexes[0].borrow, mango_group.total_borrows[0]),
            fmul(mango_group.indexes[0].deposit, mango_group.total_deposits[0]))
          > from_float(7, 10)
    /\ get_interest_rate(mango_group, 0) > fdiv(from_float(1, 10), from_num(TicksPerYear))
    /\ get_interest_rate(mango_group, 0) < fdiv(from_num(1), from_num(TicksPerYear))
    /\ get_interest_rate(mango_group, 1) = fdiv(from_num(1), from_num(TicksPerYear))

\* ------------------------------------------------- refresh before any use
\* C34: every successful Deposit, Withdraw, Borrow, SettleBorrow, Liquidate,
\* PlaceOrder, PlaceAndSettle and SettleFunds leaves each token that had
\* deposits with last_update at the current timestamp, and leaves the group
\* and the account exactly as the same instruction leaves them when it finds
\* the indexes already refreshed for that timestamp: no conversion and no
\* valuation of the instruction reads an index from before its refresh.
C34_RefreshBeforeUse ==
    [][ LET g0 == update_indexes(mango_group, clock).g
            a  == margin_accounts[last'.ma]
            s  == [key |-> last'.signer, is_signer |-> last'.is_signer]
            Same(res) == /\ res.ok
                         /\ mango_group' = res.g
                         /\ margin_accounts'[last'.ma] = res.a
        IN  last'.ok
            => /\ last'.op \in {"deposit", "withdraw", "borrow", "settle_borrow", "liquidate",
                                "place_order", "place_and_settle", "settle_funds"}
                     => \A i \in Tokens :
                           mango_group.total_deposits[i] # 0
                           => mango_group'.indexes[i].last_update = clock
               /\ last'.op = "deposit"
                     => Same(deposit(g0, a, s, last'.token, last'.quantity, clock))
               /\ last'.op = "withdraw"
                     => Same(withdraw(g0, a, s, last'.accs, last'.token, last'.quantity,
                                      clock, oracle, open_orders))
               /\ last'.op = "borrow"
                     => Same(borrow(g0, a, s, last'.accs, last'.token, last'.quantity,
                                    clock, oracle, open_orders))
               /\ last'.op = "settle_borrow"
                     => Same(settle_borrow(g0, a, s, last'.token, last'.quantity, clock))
               /\ last'.op = "liquidate"
                     => \E dq \in LiqorDeposits :
                           Same(liquidate(g0, a, s, last'.accs, dq, clock, oracle, open_orders))
               /\ last'.op = "place_order"
                     => \E m \in Markets, side \in Sides :
                           /\ Same(place_order(g0, a, s, last'.accs, m, side, last'.quantity,
                                               clock, oracle, open_orders))
                           /\ open_orders'
                                 = place_order(g0, a, s, last'.accs, m, side, last'.quantity,
                                               clock, oracle, open_orders).oos
               /\ last'.op = "place_and_settle"
                     => \E m \in Markets, side \in Sides, fill \in BOOLEAN :
                           /\ Same(place_and_settle(g0, a, s, last'.accs, m, side,
                                                    last'.quantity, fill, clock, oracle,
                                                    open_orders))
                           /\ open_orders'
                                 = place_and_settle(g0, a, s, last'.accs, m, side,
                                                    last'.quantity, fill, clock, oracle,
                                                    open_orders).oos
               /\ last'.op = "settle_funds"
                     => Same(settle_funds(g0, a, s, last'.token, last'.accs[last'.token],
                                          clock, open_orders)) ]_vars

\* a deposit went through at a timestamp after 0, at a deposit index that
\* the refresh of that timestamp had raised above 1
C34_Witness ==
    /\ last.op = "deposit" /\ last.ok
    /\ clock > 0
    /\ mango_group.indexes[last.token].last_update = clock
    /\ mango_group.indexes[last.token].deposit > from_num(1)
    /\ margin_accounts[last.ma].deposits[last.token]
          < from_num(last.quantity)

\* ------------------------------------------------- what accrual adds
\* C35: a call of update_indexes with a timestamp not behind any last_update
\* adds the same amount to the total native borrows and to the total native
\* deposits of every token with deposits, up to the rounding of the two index
\* products (two units of the last fractional bit for each native unit of
\* the two totals), and a token whose native deposits cover its native borrows
\* before the call has them covered after it.
C35_AccrualConservesNet ==
    [][ (/\ last'.op = "update_indexes" /\ last'.ok
         /\ \A j \in Tokens : mango_group.indexes[j].last_update <= clock')
            => \A i \in Tokens :
                  mango_group.total_deposits[i] # 0
                  => /\ Near(fmul(mango_group'.total_deposits[i], mango_group'.indexes[i].deposit)
                                - fmul(mango_group.total_deposits[i],
                                       mango_group.indexes[i].deposit),
                             fmul(mango_group'.total_borrows[i], mango_group'.indexes[i].borrow)
                                - fmul(mango_group.total_borrows[i],
                                       mango_group.indexes[i].borrow),
                             2 * (to_num(fmul(mango_group'.total_deposits[i],
                                               mango_group'.indexes[i].deposit))
                                  + to_num(fmul(mango_group'.total_borrows[i],
                                                mango_group'.indexes[i].borrow))) + 2)
                     /\ I1(mango_group, i) => I1(mango_group', i) ]_vars

MaxWipeOps == 3

\* bob lends the quote token and token 1; alice posts token 0 as collateral,
\* borrows all of the quote pool and takes it out
Wipe ==
    << Call("deposit", "m2", NUM_MARKETS, 100), Call("deposit", "m2", 1, 100),
       Call("deposit", "m1", 0, 120),
       Call("borrow", "m1", NUM_MARKETS, 100), Call("withdraw", "m1", NUM_MARKETS, 100) >>

\* bob lends the quote token, borrows all of it against token 1 and takes it
\* out; alice holds and owes nothing
SelfLent ==
    << Call("deposit", "m2", NUM_MARKETS, 100), Call("deposit", "m2", 1, 200),
       Call("borrow", "m2", NUM_MARKETS, 100), Call("withdraw", "m2", NUM_MARKETS, 100) >>

\* what a user brings of the quote token, and asks back
WipeQuantities == DepositQuantities \cup {99}

InitWipe ==
    /\ clock \in 0 .. (MaxClock - 1)
    /\ \E script \in {Wipe, SelfLent} : \E s \in {Replay(Fresh, script)} :
          /\ mango_group = s.g
          /\ margin_accounts = s.m
          /\ open_orders = s.oos
    /\ oracle = [i \in Markets |-> 1]
    /\ last = [op |-> "init", ma |-> "m1", signer |-> "alice", is_signer |-> TRUE, accs |-> NoAccs, token |-> 0, quantity |-> 0,
               ok |-> TRUE, err |-> "none"]
    /\ budget = MaxWipeOps

\* the oracles' medians move, down to 0; a liquidator may step in on alice's
\* account; either user may bring the quote token and ask for it back
NextWipe ==
    \/ \E market_i \in Markets, median \in OraclePrices \cup {0} : OracleUpdate(market_i, median)
    \/ \E dq \in LiqorDeposits :
          \/ Liquidate("m1", [key |-> "liqor", is_signer |-> TRUE], Stored("m1"), dq)
          \/ \E f \in Faulty("m1") : Liquidate("m1", f.signer, f.accs, dq)
    \/ \E ma \in MarginAccounts : \E c \in Calls(ma, {NUM_MARKETS}, WipeQuantities) :
          Deposit(ma, c.signer, c.token, c.quantity)
    \/ \E ma \in MarginAccounts : \E c \in Calls(ma, {NUM_MARKETS}, WipeQuantities) :
          Withdraw(ma, c.signer, c.accs, c.token, c.quantity)

SpecWipe == InitWipe /\ [][NextWipe]_vars

\* C37: the deposit index of every token is above 0 in every reachable state.
C37_DepositIndexPositive ==
    \A i \in Tokens : mango_group.indexes[i].deposit > 0

\* ------------------------------------------------- liquidation stays possible
\* C38: in every reachable state, for every account whose ratio on entry is
\* below maint_coll_ratio there are deposit quantities with which a
\* liquidator's liquidate of that account succeeds.
C38_LiquidationNeverBlocked ==
    \A ma \in MarginAccounts :
        EntryRatio(ma) < mango_group.maint_coll_ratio
            => \E k \in Tokens, q \in {0, 100, 10000} :
                  liquidate(mango_group, margin_accounts[ma],
                            [key |-> "liqor", is_signer |-> TRUE], Stored(ma),
                            [i \in Tokens |-> IF i = k THEN q ELSE 0],
                            clock, oracle, open_orders).ok

\* ------------------------------------------------------- the borrow ceiling
\* C39: when a borrow of token i has been granted, the group's total native
\* borrow of token i is at most borrow_limits[i].
C39_CeilingBoundsTotalBorrow ==
    (last.op = "borrow" /\ last.ok)
        => get_total_native_borrow(mango_group, last.token)
              <= mango_group.borrow_limits[last.token]

\* ------------------------------------------------ deposit, then withdraw
\* C40: where an account that owes nothing has deposited a quantity of a
\* token whose deposit index is at least 1, a withdraw of the same quantity of
\* the same token entered next, at the same timestamp, by the owner with the
\* stored open-orders accounts, succeeds and takes from the account's and the
\* group's deposit shares of the token what the deposit has added to them.
C40_DepositWithdrawRoundTrip ==
    [][ ( /\ last.op = "deposit" /\ last.ok
          /\ last'.op = "withdraw"
          /\ last'.ma = last.ma /\ last'.token = last.token /\ last'.quantity = last.quantity
          /\ last'.is_signer /\ last'.signer = margin_accounts[last.ma].owner
          /\ last'.accs = Stored(last.ma)
          /\ \A i \in Tokens : margin_accounts[last.ma].borrows[i] = 0
          /\ mango_group.indexes[last.token].deposit >= ONE )
            => LET credited == fdiv(from_num(last.quantity),
                                    mango_group.indexes[last.token].deposit)
               IN  /\ last'.ok
                   /\ margin_accounts'[last.ma].deposits[last.token]
                         = margin_accounts[last.ma].deposits[last.token] - credited
                   /\ mango_group'.total_deposits[last.token]
                         = mango_group.total_deposits[last.token] - credited ]_vars

====
